---- MODULE Spec2Model ----
(***************************************************************************)
(* CamForge video pipeline (src/src/core/pipeline.cpp): the pipeline       *)
(* lifecycle (pipeline_init / pipeline_deinit), the per-frame scanline     *)
(* loop (pipeline_process_frame, pipeline_process_camera_frame) and the    *)
(* asynchronous display transfer functions (send_display_dma_async,        *)
(* wait_display_dma_complete).                                             *)
(*                                                                         *)
(* The control thread is modelled by its position pc; one action is one    *)
(* statement group of the source.  The SPI peripheral is a second process: *)
(* it completes the transfer it was given.                                 *)
(***************************************************************************)
EXTENDS Integers, Sequences, FiniteSets, TLC

\* ---------------------------------------------------------------- bounds

\* Frames counted by g_framesProcessed before the model stops accepting frames.
MaxFrames == 2

\* Completions counted by g_dmaCompletions in the transfer-driver specification.
MaxCompletions == 3

\* The widest destination the scanline stage is called with, in pixels beyond
\* DISPLAY_WIDTH.
StageOverrun == 4

\* The widest and tallest image handed to the vignette kernels.
MaxVignetteDim == 5

\* The largest width and height of the buffers whose accesses are recorded.
MaxAccessDim == 5

\* The largest width and height handed to EdgeDetectFilter.
MaxEdgeDim == 5

\* The largest of the small source widths and heights of a sampled frame.
MaxSourceDim == 3

\* Calls of captureFrame and releaseFrame on the CameraDriver.
MaxDriverCalls == 5

\* The registered modes, and the seconds one step of the main loop (one call of a
\* mode's loop function included) takes at most.
MaxGames == 3
MaxStepSec == 1

\* Calls of filter_grain_hpc, and the largest width * height handed to it.
MaxGrainCalls == 3
MaxGrainPixels == 4

\* Calls of clear() in the filter-chain specification.
MaxClears == 1

\* Times the second filter instance is handed to addFilter(); the first one is
\* added without a limit.
MaxSecondAdds == 1

\* ------------------------------------------------------ program constants

DISPLAY_WIDTH == 160
DISPLAY_HEIGHT == 128

\* devcfg.queue_size: depth of the SPI device's transaction queue.
QUEUE_SIZE == 7

\* Camera.hpp: the frame buffers of the sensor driver (fb_count).
FRAME_BUFFER_COUNT == 2

\* Safety.hpp: the timeout of the task watchdog, in seconds.
WATCHDOG_TIMEOUT_SEC == 10

\* Capacity of FilterChain and of FilterChainHPC.
MAX_FILTERS == 8
MAX_FILTERS_HPC == 8

\* The two scanline buffers of g_chunkBuffer, and "no buffer" (a null pointer).
Buffers == {"A", "B"}
NoBuf == "null"

\* ---------------------------------------------------------------- state

VARIABLES
    pc,                     \* position of the control thread
    op,                     \* the public function being executed
    g_pipelineInitialized,  \* pipeline.cpp:43
    g_spiDisplayHandle,     \* pipeline.cpp:41, TRUE = non-null (device registered)
    busInitialized,         \* SPI2_HOST is initialized (until spi_bus_free)
    bufAllocated,           \* g_chunkBuffer: which scanline buffers are allocated
    activeBuffer,           \* g_chunkBuffer: the buffer getProcessBuffer() returns
    g_framesProcessed,      \* pipeline.cpp:46
    g_dmaCompletions,       \* pipeline.cpp:47
    initResult,             \* value returned by the last pipeline_init
    initEntry,              \* g_pipelineInitialized at the entry of that pipeline_init
    initFailedAt,           \* the step at which that pipeline_init failed
    frameArg,               \* pipeline_process_frame's frame argument is non-null
    sram_buffer,            \* pipeline_process_frame's local sram_buffer
    y,                      \* pipeline_process_frame's loop variable
    w,                      \* transfers of set_display_window already issued
    bufState,               \* per buffer: "free", "writing" (CPU fills it), "ready"
    bufLine,                \* per buffer: the scanline it holds when "ready"
    drainBuf,               \* the buffer the SPI peripheral is transmitting, or NoBuf
    prevScanBuf,            \* the buffer sent for the previous scanline of the frame
    dcPin,                  \* level of TFT_DC_PIN
    fbHeld,                 \* frame buffers obtained from esp_camera_fb_get, not returned
    callCaptured,           \* this pipeline_process_camera_frame captured a frame
    callReleases,           \* esp_camera_fb_return calls of this call
    callWindowTx,           \* window-setup transfers of this call
    callScanTx,             \* scanline transfers of this call
    entryFrames,            \* g_framesProcessed at the entry of this call
    entryDma,               \* g_dmaCompletions at the entry of this call
    dmaPc,                  \* transfer driver: position of the control thread
    g_spiTransaction,       \* pipeline.cpp:42, the shared transaction descriptor
    transQueued,            \* queued pointers to g_spiTransaction, not yet started
    hwTrans,                \* the buffer of the transfer the peripheral runs, or NoBuf
    retQueued,              \* finished transfers whose result was not fetched yet
    src_width,              \* frame->width of pipeline_process_frame's frame (0: null)
    src_height,             \* frame->height
    filter,                 \* pipeline_process_frame's filter argument
    src_y,                  \* pipeline_process_frame's source row of scanline y
    callTxFailed,           \* a scanline transfer of this call returned an error
    callTxAfterFail,        \* a scanline transfer was issued after such an error
    callWindowLog,          \* the one-byte control transfers of this call, in order
    callScanBits,           \* the t.length values of this call's scanline transfers
    lastTx,                 \* the last transfer: its kind and the DC level it was sent at
    st_pc,                  \* scanline stage: position in process_scanline_with_downscale
    st_fn,                  \* the downscaling function that runs
    st_src_width,           \* its src_width argument
    st_dst_width,           \* its dst_width argument
    st_x,                   \* its loop variable x
    st_samples,             \* st_samples[x + 1]: the source index copied to dst[x]
    fc_filters,             \* FilterChain::_filters: slot -> filter instance or nullptr
    fc_count,               \* FilterChain::_count
    enabled,                \* ImageFilter::enabled of every filter instance
    hpc_filters,            \* FilterChainHPC::_filters: slot -> HPCFilter
    hpc_count,              \* FilterChainHPC::_count
    lastCall,               \* the last chain operation, the name passed to toggle(), and
                            \* what the operation returned on each chain
    fc_data,                \* the kernels FilterChain's last process() applied to data
    hpc_data,               \* the kernels FilterChainHPC's last process() applied to data
    addedSinceClear,        \* the filters added successfully since the last clear()
    chainClears,            \* calls of clear() so far
    secondAdds,             \* calls of addFilter() with the second filter instance so far
    px_rgb,                 \* pixel kernels: the channel triple handed to rgb888_to_rgb565
    px_unpacked,            \* the triple rgb565_to_rgb888 gave back for it
    px_pixel,               \* data[i] before the kernel
    px_kernel,              \* the kernel that ran on data[i]
    px_data,                \* data[i] after the kernel
    vg_kernel,              \* vignette: which of the three vignette kernels is called
    vg_width,               \* its width argument
    vg_height,              \* its height argument
    vg_strength,            \* m_strength_q8 / strength_q8
    vg_x,                   \* the pixel looked at: column
    vg_y,                   \* the pixel looked at: row
    vg_pc,                  \* "call", then "done", or "fault" after a division by zero
    vg_factor,              \* the factor the kernel applied to the pixel
    vg_pixel,               \* the pixel before the kernel
    vg_data,                \* the pixel after the kernel
    nb_kernel,              \* buffer accesses: the kernel whose process() is called
    nb_width,               \* its width argument
    nb_height,              \* its height argument
    nb_pc,                  \* "call", then "done"
    nb_reads,               \* the indices of data the call read
    nb_writes,              \* the indices of data the call wrote
    cl_kernel,              \* saturation: the kernel applied to one pixel
    cl_pixel,               \* the pixel data[i]
    cl_neighbour,           \* the pixel every neighbour of data[i] holds
    cl_param1,              \* the kernel's first parameter
    cl_param2,              \* its second parameter (filter_grain_hpc: lfsr & 0xFF)
    cl_pc,                  \* "call", then "done"
    cl_raw,                 \* r, g, b as computed, before any clamp
    cl_wide,                \* r, g, b as handed to the 8-bit channels
    cl_data,                \* data[i] after the kernel
    gr_lfsr,                \* grain: the static lfsr, <<high half, low half>>
    gr_pc,                  \* "idle" between calls of filter_grain_hpc, "loop" inside
    gr_total,               \* total = width * height of the running call
    gr_i,                   \* its loop variable i
    gr_intensity,           \* its intensity
    gr_noise,               \* the noise of the pixel filtered last
    gr_calls,               \* calls of filter_grain_hpc so far
    gr_pixels,              \* pixels filtered so far, over all calls
    aux                     \* the units specified last, one record each: edge
                            \* (EdgeDetectFilter), sample (source sampling), driver
                            \* (CameraDriver), watchdog (main loop and watchdog)

lifeVars == <<g_pipelineInitialized, g_spiDisplayHandle, busInitialized, bufAllocated,
              activeBuffer>>
statVars == <<g_framesProcessed, g_dmaCompletions>>
initVars == <<initResult, initEntry, initFailedAt>>
frameVars == <<frameArg, sram_buffer, y, w, bufState, bufLine, drainBuf, prevScanBuf,
               dcPin>>
camVars == <<fbHeld, callCaptured, callReleases, callWindowTx, callScanTx, entryFrames,
             entryDma>>
dmaVars == <<dmaPc, g_spiTransaction, transQueued, hwTrans, retQueued>>
callVars == <<src_width, src_height, filter, src_y, callTxFailed, callTxAfterFail,
              callWindowLog, callScanBits, lastTx>>
pipelineVars == <<pc, op, lifeVars, statVars, initVars, frameVars, camVars, dmaVars,
                  callVars>>
stageVars == <<st_pc, st_fn, st_src_width, st_dst_width, st_x, st_samples>>
\* The variables of the units that are specified on their own.
chainVars == <<fc_filters, fc_count, enabled, hpc_filters, hpc_count, lastCall,
               fc_data, hpc_data, addedSinceClear, chainClears, secondAdds>>
pixelVars == <<px_rgb, px_unpacked, px_pixel, px_kernel, px_data>>
\* The variables of the filter kernels.
vignetteVars == <<vg_kernel, vg_width, vg_height, vg_strength, vg_x, vg_y, vg_pc,
                  vg_factor, vg_pixel, vg_data>>
accessVars == <<nb_kernel, nb_width, nb_height, nb_pc, nb_reads, nb_writes>>
clampVars == <<cl_kernel, cl_pixel, cl_neighbour, cl_param1, cl_param2, cl_pc, cl_raw,
               cl_wide, cl_data>>
grainVars == <<gr_lfsr, gr_pc, gr_total, gr_i, gr_intensity, gr_noise, gr_calls,
               gr_pixels>>
kernelVars == <<pixelVars, vignetteVars, accessVars, clampVars, grainVars>>
auxVars == <<aux>>
unitVars == <<stageVars, chainVars, kernelVars, auxVars>>
vars == <<pipelineVars, unitVars>>

\* The fields of aux.edge, the state of EdgeDetectFilter::process.
ed_pc == aux.edge.pc                  \* position in EdgeDetectFilter::process
ed_width == aux.edge.width            \* its width argument
ed_height == aux.edge.height          \* its height argument
ed_y == aux.edge.y                    \* its loop variable y
ed_data == aux.edge.data              \* data[i]: i for the original pixel, -1 for
                                      \* edge output
ed_lineBuffer == aux.edge.lineBuffer  \* lineBuffer[k][x]: the pixel whose luminance
                                      \* it holds

\* The fields of aux.sample, the source coordinates of pipeline_process_frame().
sm_pc == aux.sample.pc                \* position in pipeline_process_frame
sm_width == aux.sample.width          \* frame->width
sm_height == aux.sample.height        \* frame->height
sm_y == aux.sample.y                  \* the loop variable y
sm_src_y == aux.sample.src_y          \* src_y of the scanline y
sm_src_x == aux.sample.src_x          \* src_x of every x of the scanline

\* The fields of aux.driver, the CameraDriver and the sensor's buffers.
cd_pc == aux.driver.pc                      \* position in captureFrame
cd_initialized == aux.driver.initialized    \* CameraDriver::_initialized
cd_currentFrame == aux.driver.currentFrame  \* CameraDriver::_currentFrame, 0 = nullptr
cd_frame == aux.driver.frame                \* data of the CamFrame returned last
cd_gets == aux.driver.gets                  \* per buffer: times esp_camera_fb_get gave it
cd_returns == aux.driver.returns            \* per buffer: times esp_camera_fb_return
                                            \* took it
cd_lastCall == aux.driver.lastCall          \* the member function called last
cd_calls == aux.driver.calls                \* calls so far

\* The fields of aux.watchdog, the main loop and the task watchdog.
wd_pc == aux.watchdog.pc                \* position in loop() and handleMenuInput()
wd_sinceFeed == aux.watchdog.sinceFeed  \* seconds since the watchdog was fed
wd_elapsed == aux.watchdog.elapsed      \* seconds the current step has taken
gameCount == aux.watchdog.gameCount     \* the number of registered modes
selectedGame == aux.watchdog.selectedGame  \* Menu.hpp:15

NoTransaction == [length |-> 0, tx_buffer |-> NoBuf, user |-> 0]

InitPipelineVars ==
    /\ pc = "idle"
    /\ op = "none"
    /\ g_pipelineInitialized = FALSE
    /\ g_spiDisplayHandle = FALSE
    /\ busInitialized = FALSE
    /\ bufAllocated = {}
    /\ activeBuffer = "A"
    /\ g_framesProcessed = 0
    /\ g_dmaCompletions = 0
    /\ initResult = FALSE
    /\ initEntry = FALSE
    /\ initFailedAt = "none"
    /\ frameArg = FALSE
    /\ sram_buffer = NoBuf
    /\ y = 0
    /\ w = 0
    /\ bufState = [b \in Buffers |-> "free"]
    /\ bufLine = [b \in Buffers |-> 0]
    /\ drainBuf = NoBuf
    /\ prevScanBuf = NoBuf
    /\ dcPin = 0
    /\ fbHeld = 0
    /\ callCaptured = FALSE
    /\ callReleases = 0
    /\ callWindowTx = 0
    /\ callScanTx = 0
    /\ entryFrames = 0
    /\ entryDma = 0
    /\ src_width = 0
    /\ src_height = 0
    /\ filter = "FILTER_NONE"
    /\ src_y = 0
    /\ callTxFailed = FALSE
    /\ callTxAfterFail = FALSE
    /\ callWindowLog = <<>>
    /\ callScanBits = {}
    /\ lastTx = [kind |-> "none", dc |-> 0]

InitDmaVars ==
    /\ dmaPc = "idle"
    /\ g_spiTransaction = NoTransaction
    /\ transQueued = 0
    /\ hwTrans = NoBuf
    /\ retQueued = 0

\* No call of the scanline stage is in progress.
InitStageVars ==
    /\ st_pc = "idle"
    /\ st_fn = "none"
    /\ st_src_width = 0
    /\ st_dst_width = 0
    /\ st_x = 0
    /\ st_samples = <<>>

\* The filter instances handed to the chains, as in retroInit().
FilterInstances == {"sepiaFilter", "grainFilter"}
SecondFilter == "grainFilter"
NullFilter == "nullptr"

\* ImageFilter::name of an instance, and the name given to FilterChainHPC.
FilterName(f) == IF f = "sepiaFilter" THEN "Sepia" ELSE "Grain"

\* The kernel and the parameter block FilterChainHPC gets for the same filter.
FilterFunc(f) == IF f = "sepiaFilter" THEN "filter_sepia_hpc" ELSE "filter_grain_hpc"
FilterParams(f) == IF f = "sepiaFilter" THEN "nullptr" ELSE "g_grainParams"

FilterSlots == 0 .. MAX_FILTERS - 1
HPCSlots == 0 .. MAX_FILTERS_HPC - 1

\* FilterChainHPC(): the value every slot is constructed with.
HPCFilterEmpty ==
    [name |-> "nullptr", func |-> "nullptr", params |-> "nullptr", enabled |-> FALSE]

\* FilterChain() and FilterChainHPC(); every ImageFilter is constructed enabled.
InitChainVars ==
    /\ fc_filters = [i \in FilterSlots |-> NullFilter]
    /\ fc_count = 0
    /\ enabled = [f \in FilterInstances |-> TRUE]
    /\ hpc_filters = [i \in HPCSlots |-> HPCFilterEmpty]
    /\ hpc_count = 0
    /\ lastCall = [op |-> "none", arg |-> "none", fc |-> "void", hpc |-> "void"]
    /\ fc_data = <<>>
    /\ hpc_data = <<>>
    /\ addedSinceClear = <<>>
    /\ chainClears = 0
    /\ secondAdds = 0

\* No pixel kernel has been called.
InitPixelVars ==
    /\ px_rgb = <<0, 0, 0>>
    /\ px_unpacked = <<>>
    /\ px_pixel = 0
    /\ px_kernel = "none"
    /\ px_data = 0

\* No vignette kernel has been called.
InitVignetteVars ==
    /\ vg_kernel = "none"
    /\ vg_width = 0
    /\ vg_height = 0
    /\ vg_strength = 0
    /\ vg_x = 0
    /\ vg_y = 0
    /\ vg_pc = "idle"
    /\ vg_factor = 0
    /\ vg_pixel = 0
    /\ vg_data = 0

\* No kernel has been called to record its accesses.
InitAccessVars ==
    /\ nb_kernel = "none"
    /\ nb_width = 0
    /\ nb_height = 0
    /\ nb_pc = "idle"
    /\ nb_reads = {}
    /\ nb_writes = {}

\* No kernel has been applied to the pixel of the saturation unit.
InitClampVars ==
    /\ cl_kernel = "none"
    /\ cl_pixel = 0
    /\ cl_neighbour = 0
    /\ cl_param1 = 0
    /\ cl_param2 = 0
    /\ cl_pc = "idle"
    /\ cl_raw = <<>>
    /\ cl_wide = <<>>
    /\ cl_data = 0

\* static uint32_t lfsr = 0xDEADBEEF
LfsrSeed == <<57005, 48879>>

\* filter_grain_hpc has not been called: its static lfsr holds the seed.
InitGrainVars ==
    /\ gr_lfsr = LfsrSeed
    /\ gr_pc = "idle"
    /\ gr_total = 0
    /\ gr_i = 0
    /\ gr_intensity = 0
    /\ gr_noise = 0
    /\ gr_calls = 0
    /\ gr_pixels = 0

InitKernelVars ==
    /\ InitPixelVars
    /\ InitVignetteVars
    /\ InitAccessVars
    /\ InitClampVars
    /\ InitGrainVars

\* EdgeDetectFilter::process has not been called: the static line buffers hold
\* no row.
IdleEdge ==
    [pc |-> "idle", width |-> 0, height |-> 0, y |-> 0, data |-> <<>>,
     lineBuffer |-> [k \in 0 .. 2 |-> <<>>]]

\* No frame is being sampled.
IdleSample ==
    [pc |-> "idle", width |-> 0, height |-> 0, y |-> 0, src_y |-> 0, src_x |-> <<>>]

\* The CameraDriver is constructed and initialized; the sensor has every buffer.
IdleDriver ==
    [pc |-> "idle", initialized |-> TRUE, currentFrame |-> 0, frame |-> 0,
     gets |-> [b \in 1 .. FRAME_BUFFER_COUNT |-> 0],
     returns |-> [b \in 1 .. FRAME_BUFFER_COUNT |-> 0],
     lastCall |-> "none", calls |-> 0]

\* setup() has not run: no watchdog, no mode registered.
IdleWatchdog ==
    [pc |-> "idle", sinceFeed |-> 0, elapsed |-> 0, gameCount |-> 0, selectedGame |-> 0]

IdleAux ==
    [edge |-> IdleEdge, sample |-> IdleSample, driver |-> IdleDriver,
     watchdog |-> IdleWatchdog]

InitAuxVars == aux = IdleAux

InitUnitVars == InitStageVars /\ InitChainVars /\ InitKernelVars /\ InitAuxVars

Init == InitPipelineVars /\ InitDmaVars /\ InitUnitVars

\* ------------------------------------------------------------ pipeline_init

\* SRAMChunkBuffer::init(): both buffers are allocated from fast memory; if either
\* allocation fails nothing stays allocated and the result is false.
SRAMChunkBuffer_init(ok0, ok1) ==
    /\ bufAllocated' = IF ok0 /\ ok1 THEN Buffers ELSE {}
    /\ activeBuffer' = "A"
    /\ bufState' = [b \in Buffers |-> "free"]
    /\ bufLine' = [b \in Buffers |-> 0]

\* SRAMChunkBuffer::deinit(): both buffers are freed.
SRAMChunkBuffer_deinit ==
    /\ bufAllocated' = {}
    /\ bufState' = [b \in Buffers |-> "free"]
    /\ bufLine' = [b \in Buffers |-> 0]

\* Faulty variant of pipeline_init_entry: the check of g_pipelineInitialized is missing.
pipeline_init_entry_unguarded ==
    /\ pc = "idle"
    /\ op' = "pipeline_init"
    /\ initEntry' = g_pipelineInitialized
    /\ initFailedAt' = "none"
    /\ pc' = "init_alloc"
    /\ initResult' = FALSE
    /\ UNCHANGED <<lifeVars, statVars, frameVars, camVars, dmaVars, callVars, unitVars>>

\* pipeline_init(), line 292: an initialized pipeline returns true at once.
pipeline_init_entry ==
    /\ pc = "idle"
    /\ op' = "pipeline_init"
    /\ initEntry' = g_pipelineInitialized
    /\ initFailedAt' = "none"
    /\ IF g_pipelineInitialized
         THEN /\ pc' = "init_return"
              /\ initResult' = TRUE
         ELSE /\ pc' = "init_alloc"
              /\ initResult' = FALSE
    /\ UNCHANGED <<lifeVars, statVars, frameVars, camVars, dmaVars, callVars, unitVars>>

\* pipeline_init(), lines 297-300: g_chunkBuffer.init().
pipeline_init_alloc ==
    /\ pc = "init_alloc"
    /\ \E ok0 \in BOOLEAN, ok1 \in BOOLEAN :
         /\ SRAMChunkBuffer_init(ok0, ok1)
         /\ IF ok0 /\ ok1
              THEN /\ pc' = "init_bus"
                   /\ UNCHANGED initFailedAt
              ELSE /\ pc' = "init_return"
                   /\ initFailedAt' = "alloc"
    /\ UNCHANGED <<op, g_pipelineInitialized, g_spiDisplayHandle, busInitialized,
                   statVars, initResult, initEntry, frameArg, sram_buffer, y, w,
                   drainBuf, prevScanBuf, dcPin, camVars, dmaVars, callVars, unitVars>>

\* init_display_spi_dma(), lines 110-114: spi_bus_initialize(SPI2_HOST, ...).
\* The driver refuses a host that is already initialized (ESP_ERR_INVALID_STATE).
init_display_spi_dma_bus ==
    /\ pc = "init_bus"
    /\ \E ok \in (IF busInitialized THEN {FALSE} ELSE BOOLEAN) :
         IF ok
           THEN /\ busInitialized' = TRUE
                /\ pc' = "init_device"
                /\ UNCHANGED initFailedAt
           ELSE /\ pc' = "init_transport_failed"
                /\ initFailedAt' = "bus"
                /\ UNCHANGED busInitialized
    /\ UNCHANGED <<op, g_pipelineInitialized, g_spiDisplayHandle, bufAllocated,
                   activeBuffer, statVars, initResult, initEntry, frameVars, camVars,
                   dmaVars, callVars, unitVars>>

\* init_display_spi_dma(), lines 134-145: spi_bus_add_device, then the DC pin is
\* made an output at level 1.
init_display_spi_dma_device ==
    /\ pc = "init_device"
    /\ \E ok \in BOOLEAN :
         IF ok
           THEN /\ g_spiDisplayHandle' = TRUE
                /\ dcPin' = 1
                /\ pc' = "init_finish"
                /\ UNCHANGED initFailedAt
           ELSE /\ pc' = "init_transport_failed"
                /\ initFailedAt' = "device"
                /\ UNCHANGED <<g_spiDisplayHandle, dcPin>>
    /\ UNCHANGED <<op, g_pipelineInitialized, busInitialized, bufAllocated,
                   activeBuffer, statVars, initResult, initEntry, frameArg,
                   sram_buffer, y, w, bufState, bufLine, drainBuf, prevScanBuf,
                   camVars, dmaVars, callVars, unitVars>>

\* Faulty variant of pipeline_init_transport_failed: g_chunkBuffer.deinit() is missing.
pipeline_init_transport_failed_leak ==
    /\ pc = "init_transport_failed"
    /\ pc' = "init_return"
    /\ UNCHANGED <<op, lifeVars, statVars, initVars, frameVars, camVars, dmaVars,
                   callVars, unitVars>>

\* pipeline_init(), lines 303-307: the transport failed, the buffers are freed.
pipeline_init_transport_failed ==
    /\ pc = "init_transport_failed"
    /\ SRAMChunkBuffer_deinit
    /\ pc' = "init_return"
    /\ UNCHANGED <<op, g_pipelineInitialized, g_spiDisplayHandle, busInitialized,
                   activeBuffer, statVars, initVars, frameArg, sram_buffer, y, w,
                   drainBuf, prevScanBuf, dcPin, camVars, dmaVars, callVars, unitVars>>

\* pipeline_init(), lines 309-316.
pipeline_init_finish ==
    /\ pc = "init_finish"
    /\ g_pipelineInitialized' = TRUE
    /\ g_framesProcessed' = 0
    /\ g_dmaCompletions' = 0
    /\ initResult' = TRUE
    /\ pc' = "init_return"
    /\ UNCHANGED <<op, g_spiDisplayHandle, busInitialized, bufAllocated, activeBuffer,
                   initEntry, initFailedAt, frameVars, camVars, dmaVars, callVars,
                   unitVars>>

\* The caller has the result of pipeline_init.
pipeline_init_return ==
    /\ pc = "init_return"
    /\ pc' = "idle"
    /\ op' = "none"
    /\ UNCHANGED <<lifeVars, statVars, initVars, frameVars, camVars, dmaVars, callVars,
                   unitVars>>

\* ---------------------------------------------------------- pipeline_deinit

\* pipeline_deinit(), line 323: nothing to do on an uninitialized pipeline.
pipeline_deinit_entry ==
    /\ pc = "idle"
    /\ op' = "pipeline_deinit"
    /\ pc' = IF g_pipelineInitialized THEN "deinit_chunk" ELSE "deinit_return"
    /\ UNCHANGED <<lifeVars, statVars, initVars, frameVars, camVars, dmaVars, callVars,
                   unitVars>>

\* pipeline_deinit(), line 325: g_chunkBuffer.deinit().
pipeline_deinit_chunk ==
    /\ pc = "deinit_chunk"
    /\ SRAMChunkBuffer_deinit
    /\ pc' = "deinit_spi"
    /\ UNCHANGED <<op, g_pipelineInitialized, g_spiDisplayHandle, busInitialized,
                   activeBuffer, statVars, initVars, frameArg, sram_buffer, y, w,
                   drainBuf, prevScanBuf, dcPin, camVars, dmaVars, callVars, unitVars>>

\* pipeline_deinit(), lines 327-331: spi_bus_remove_device, spi_bus_free, and
\* g_spiDisplayHandle = nullptr.
pipeline_deinit_spi ==
    /\ pc = "deinit_spi"
    /\ IF g_spiDisplayHandle
         THEN /\ g_spiDisplayHandle' = FALSE
              /\ busInitialized' = FALSE
         ELSE UNCHANGED <<g_spiDisplayHandle, busInitialized>>
    /\ pc' = "deinit_finish"
    /\ UNCHANGED <<op, g_pipelineInitialized, bufAllocated, activeBuffer, statVars,
                   initVars, frameVars, camVars, dmaVars, callVars, unitVars>>

\* pipeline_deinit(), lines 333-334.
pipeline_deinit_finish ==
    /\ pc = "deinit_finish"
    /\ g_pipelineInitialized' = FALSE
    /\ pc' = "deinit_return"
    /\ UNCHANGED <<op, g_spiDisplayHandle, busInitialized, bufAllocated, activeBuffer,
                   statVars, initVars, frameVars, camVars, dmaVars, callVars, unitVars>>

pipeline_deinit_return ==
    /\ pc = "deinit_return"
    /\ pc' = "idle"
    /\ op' = "none"
    /\ UNCHANGED <<lifeVars, statVars, initVars, frameVars, camVars, dmaVars, callVars,
                   unitVars>>

\* ------------------------------------------------------ set_display_window

\* Faulty variant of WindowSeq: the memory write command (RAMWR) is missing.
WindowSeq_noRamwr ==
    << [kind |-> "cmd", dc |-> 0, byte |-> 42],
       [kind |-> "data", dc |-> 1, byte |-> 0],
       [kind |-> "data", dc |-> 1, byte |-> 0],
       [kind |-> "data", dc |-> 1, byte |-> 0],
       [kind |-> "data", dc |-> 1, byte |-> DISPLAY_WIDTH - 1],
       [kind |-> "cmd", dc |-> 0, byte |-> 43],
       [kind |-> "data", dc |-> 1, byte |-> 0],
       [kind |-> "data", dc |-> 1, byte |-> 0],
       [kind |-> "data", dc |-> 1, byte |-> 0],
       [kind |-> "data", dc |-> 1, byte |-> DISPLAY_HEIGHT - 1] >>

\* set_display_window(0, 0, DISPLAY_WIDTH - 1, DISPLAY_HEIGHT - 1), lines 218-235:
\* the transfers it issues, in order; dc is the level spi_pre_transfer_callback
\* puts on the DC pin (t.user), byte the byte sent.
WindowSeq ==
    << [kind |-> "cmd", dc |-> 0, byte |-> 42],
       [kind |-> "data", dc |-> 1, byte |-> 0],
       [kind |-> "data", dc |-> 1, byte |-> 0],
       [kind |-> "data", dc |-> 1, byte |-> 0],
       [kind |-> "data", dc |-> 1, byte |-> DISPLAY_WIDTH - 1],
       [kind |-> "cmd", dc |-> 0, byte |-> 43],
       [kind |-> "data", dc |-> 1, byte |-> 0],
       [kind |-> "data", dc |-> 1, byte |-> 0],
       [kind |-> "data", dc |-> 1, byte |-> 0],
       [kind |-> "data", dc |-> 1, byte |-> DISPLAY_HEIGHT - 1],
       [kind |-> "cmd", dc |-> 0, byte |-> 44] >>

\* spi_pre_transfer_callback(t), lines 79-87: the DC level for t->user.
spi_pre_transfer_callback(user) == IF user # 0 THEN 1 ELSE 0

\* Faulty variant of TransferDcLevel: the callback is registered as post_cb, the
\* bytes go out at the level the transfer before left on the pin.
TransferDcLevel_post(user) == dcPin

\* devcfg.pre_cb = spi_pre_transfer_callback (line 130): the driver runs the
\* callback before it clocks out the first bit, so the bytes of a transfer with
\* t.user = user are sent at this DC level.
TransferDcLevel(user) == spi_pre_transfer_callback(user)

\* The camera frame sizes and the filter selectors the callers pass.
FrameSizes == {<<320, 240>>, <<160, 120>>}
FilterTypes == {"FILTER_NONE", "FILTER_GRAYSCALE"}

\* -------------------------------------------------- pipeline_process_frame

\* A new call starts: the per-call observations are reset.
CallStart ==
    /\ callCaptured' = FALSE
    /\ callReleases' = 0
    /\ callWindowTx' = 0
    /\ callScanTx' = 0
    /\ entryFrames' = g_framesProcessed
    /\ entryDma' = g_dmaCompletions
    /\ callTxFailed' = FALSE
    /\ callTxAfterFail' = FALSE
    /\ callWindowLog' = <<>>
    /\ callScanBits' = {}

\* A caller passes a frame of its own (or null) to pipeline_process_frame.
pipeline_process_frame_call ==
    /\ pc = "idle"
    /\ g_framesProcessed < MaxFrames
    /\ op' = "pipeline_process_frame"
    /\ \E frame \in {<<0, 0>>} \cup FrameSizes, f \in FilterTypes :
         /\ frameArg' = (frame # <<0, 0>>)
         /\ src_width' = frame[1]
         /\ src_height' = frame[2]
         /\ filter' = f
    /\ CallStart
    /\ pc' = "frame_entry"
    /\ UNCHANGED <<lifeVars, statVars, initVars, sram_buffer, y, w, bufState, bufLine,
                   drainBuf, prevScanBuf, dcPin, fbHeld, dmaVars, src_y, lastTx,
                   unitVars>>

\* pipeline_get_stats(), lines 423-426: the pair <<frames, dma_ops>> it reports.
pipeline_get_stats == <<g_framesProcessed, g_dmaCompletions>>

\* Faulty variant of the entry of pipeline_process_frame(): no early exit.
pipeline_process_frame_entry_unchecked ==
    /\ pc = "frame_entry"
    /\ pc' = "frame_window"
    /\ w' = 0
    /\ UNCHANGED <<op, lifeVars, statVars, initVars, frameArg, sram_buffer, y,
                   bufState, bufLine, drainBuf, prevScanBuf, dcPin, camVars, dmaVars,
                   callVars, unitVars>>

\* pipeline_process_frame(), lines 354-362: the early exit, else the scale factors.
pipeline_process_frame_entry ==
    /\ pc = "frame_entry"
    /\ IF ~g_pipelineInitialized \/ ~frameArg
         THEN pc' = "frame_return"
         ELSE pc' = "frame_window"
    /\ w' = 0
    /\ UNCHANGED <<op, lifeVars, statVars, initVars, frameArg, sram_buffer, y,
                   bufState, bufLine, drainBuf, prevScanBuf, dcPin, camVars, dmaVars,
                   callVars, unitVars>>

\* pipeline_process_frame(), line 365: one blocking one-byte transfer of
\* set_display_window (send_display_command / send_display_data, lines 188-213).
\* Without a device handle no transfer takes place.
pipeline_process_frame_window ==
    /\ pc = "frame_window"
    /\ w < Len(WindowSeq)
    /\ IF g_spiDisplayHandle
         THEN /\ dcPin' = spi_pre_transfer_callback(WindowSeq[w + 1].dc)
              /\ lastTx' = [kind |-> WindowSeq[w + 1].kind,
                            dc |-> TransferDcLevel(WindowSeq[w + 1].dc)]
              /\ callWindowTx' = callWindowTx + 1
              /\ callWindowLog' = Append(callWindowLog,
                                         [kind |-> WindowSeq[w + 1].kind,
                                          byte |-> WindowSeq[w + 1].byte])
         ELSE UNCHANGED <<dcPin, lastTx, callWindowTx, callWindowLog>>
    /\ w' = w + 1
    /\ pc' = IF w + 1 = Len(WindowSeq) THEN "frame_getbuf" ELSE "frame_window"
    /\ UNCHANGED <<op, lifeVars, statVars, initVars, frameArg, sram_buffer, y,
                   bufState, bufLine, drainBuf, prevScanBuf, fbHeld, callCaptured,
                   callReleases, callScanTx, entryFrames, entryDma, dmaVars,
                   src_width, src_height, filter, src_y, callTxFailed,
                   callTxAfterFail, callScanBits,
                   unitVars>>

\* SRAMChunkBuffer::getProcessBuffer(): the buffer in the fill role.
SRAMChunkBuffer_getProcessBuffer == activeBuffer

\* pipeline_process_frame(), lines 370-372: sram_buffer is fetched once, before the loop.
pipeline_process_frame_getbuf ==
    /\ pc = "frame_getbuf"
    /\ sram_buffer' = SRAMChunkBuffer_getProcessBuffer
    /\ y' = 0
    /\ prevScanBuf' = NoBuf
    /\ pc' = "line_begin"
    /\ UNCHANGED <<op, lifeVars, statVars, initVars, frameArg, w, bufState, bufLine,
                   drainBuf, dcPin, camVars, dmaVars, callVars, unitVars>>

\* Faulty variant of ScanlineLoopContinues: the loop runs over the source rows.
ScanlineLoopContinues_source(yy) == yy < src_height

\* pipeline_process_frame(), line 372: the loop condition y < DISPLAY_HEIGHT.
ScanlineLoopContinues(yy) == yy < DISPLAY_HEIGHT

\* pipeline_process_frame(), line 362: the vertical scale, 8 fractional bits.
y_scale == (src_height * 256) \div DISPLAY_HEIGHT

\* pipeline_process_frame(), lines 372-380 and 270: the scanline stage starts to
\* write sram_buffer.
pipeline_process_frame_line_begin ==
    /\ pc = "line_begin"
    /\ ScanlineLoopContinues(y)
    /\ src_y' = IF (y * y_scale) \div 256 >= src_height
                  THEN src_height - 1
                  ELSE (y * y_scale) \div 256
    /\ bufState' = [bufState EXCEPT ![sram_buffer] = "writing"]
    /\ pc' = "line_downscale"
    /\ UNCHANGED <<op, lifeVars, statVars, initVars, frameArg, sram_buffer, y, w,
                   bufLine, drainBuf, prevScanBuf, dcPin, camVars, dmaVars,
                   src_width, src_height, filter, callTxFailed, callTxAfterFail,
                   callWindowLog, callScanBits, lastTx, unitVars>>

\* process_scanline_with_downscale(), lines 270-277: the downscale and the filter
\* have written the whole destination scanline.
process_scanline_with_downscale_done ==
    /\ pc = "line_downscale"
    /\ bufState' = [bufState EXCEPT ![sram_buffer] = "ready"]
    /\ bufLine' = [bufLine EXCEPT ![sram_buffer] = y]
    /\ pc' = "line_transmit"
    /\ UNCHANGED <<op, lifeVars, statVars, initVars, frameArg, sram_buffer, y, w,
                   drainBuf, prevScanBuf, dcPin, camVars, dmaVars, callVars, unitVars>>

\* pipeline_process_frame(), lines 388-394: spi_device_polling_transmit starts the
\* transfer of sram_buffer in data mode.
pipeline_process_frame_transmit ==
    /\ pc = "line_transmit"
    /\ \E ok \in BOOLEAN :
         /\ drainBuf' = IF ok THEN sram_buffer ELSE NoBuf
         /\ dcPin' = IF ok THEN spi_pre_transfer_callback(1) ELSE dcPin
         /\ lastTx' = IF ok THEN [kind |-> "pixels", dc |-> TransferDcLevel(1)]
                              ELSE lastTx
         /\ callTxFailed' = (callTxFailed \/ ~ok)
    /\ callTxAfterFail' = (callTxAfterFail \/ callTxFailed)
    /\ callScanTx' = callScanTx + 1
    /\ callScanBits' = callScanBits \cup {DISPLAY_WIDTH * 16}
    /\ pc' = "line_polling"
    /\ UNCHANGED <<op, lifeVars, statVars, initVars, frameArg, sram_buffer, y, w,
                   bufState, bufLine, prevScanBuf, fbHeld, callCaptured, callReleases,
                   callWindowTx, entryFrames, entryDma, dmaVars, src_width,
                   src_height, filter, src_y, callWindowLog,
                   unitVars>>

\* The SPI peripheral has sent the last bit of the buffer it was given.
spi_transfer_complete ==
    /\ drainBuf # NoBuf
    /\ drainBuf' = NoBuf
    /\ UNCHANGED <<pc, op, lifeVars, statVars, initVars, frameArg, sram_buffer, y, w,
                   bufState, bufLine, prevScanBuf, dcPin, camVars, dmaVars, callVars,
                   unitVars>>

\* Faulty variant of PollingTransmitReturns: the transfer is only queued, the call
\* returns while the peripheral still reads the buffer.
PollingTransmitReturns_queued == TRUE

\* spi_device_polling_transmit (line 394) is blocking: it returns when the
\* peripheral has finished the transfer.
PollingTransmitReturns == drainBuf = NoBuf

\* pipeline_process_frame(), lines 394-395 and 372: the transmit returns, y++.
pipeline_process_frame_line_end ==
    /\ pc = "line_polling"
    /\ PollingTransmitReturns
    /\ y' = y + 1
    /\ prevScanBuf' = sram_buffer
    /\ pc' = IF ScanlineLoopContinues(y + 1) THEN "line_begin" ELSE "frame_count"
    /\ UNCHANGED <<op, lifeVars, statVars, initVars, frameArg, sram_buffer, w,
                   bufState, bufLine, drainBuf, dcPin, camVars, dmaVars, callVars,
                   unitVars>>

\* pipeline_process_frame(), line 397.
pipeline_process_frame_count ==
    /\ pc = "frame_count"
    /\ g_framesProcessed' = g_framesProcessed + 1
    /\ pc' = "frame_return"
    /\ UNCHANGED <<op, lifeVars, g_dmaCompletions, initVars, frameVars, camVars,
                   dmaVars, callVars, unitVars>>

\* pipeline_process_frame() returns to its caller.
pipeline_process_frame_return ==
    /\ pc = "frame_return"
    /\ IF op = "pipeline_process_camera_frame"
         THEN /\ pc' = "cam_release"
              /\ UNCHANGED op
         ELSE /\ pc' = "idle"
              /\ op' = "none"
    /\ UNCHANGED <<lifeVars, statVars, initVars, frameVars, camVars, dmaVars, callVars,
                   unitVars>>

\* ------------------------------------------- pipeline_process_camera_frame

pipeline_process_camera_frame_call ==
    /\ pc = "idle"
    /\ g_framesProcessed < MaxFrames
    /\ op' = "pipeline_process_camera_frame"
    /\ \E f \in FilterTypes : filter' = f
    /\ CallStart
    /\ pc' = "cam_capture"
    /\ UNCHANGED <<lifeVars, statVars, initVars, frameVars, fbHeld, dmaVars,
                   src_width, src_height, src_y, lastTx, unitVars>>

\* Faulty variant of pipeline_process_camera_frame_capture: the null check is missing.
pipeline_process_camera_frame_capture_unchecked ==
    /\ pc = "cam_capture"
    /\ \E fb \in {<<0, 0>>} \cup FrameSizes :
         /\ frameArg' = (fb # <<0, 0>>)
         /\ src_width' = fb[1]
         /\ src_height' = fb[2]
         /\ fbHeld' = IF fb # <<0, 0>> THEN fbHeld + 1 ELSE fbHeld
         /\ callCaptured' = (fb # <<0, 0>>)
         /\ pc' = "frame_entry"
    /\ UNCHANGED <<op, lifeVars, statVars, initVars, sram_buffer, y, w, bufState,
                   bufLine, drainBuf, prevScanBuf, dcPin, callReleases, callWindowTx,
                   callScanTx, entryFrames, entryDma, dmaVars, filter, src_y,
                   callTxFailed, callTxAfterFail, callWindowLog, callScanBits, lastTx,
                   unitVars>>

\* pipeline_process_camera_frame(), lines 407-414: esp_camera_fb_get() gives a
\* frame buffer or null; null ends the call.
pipeline_process_camera_frame_capture ==
    /\ pc = "cam_capture"
    /\ \E fb \in {<<0, 0>>} \cup FrameSizes :
         /\ frameArg' = (fb # <<0, 0>>)
         /\ src_width' = fb[1]
         /\ src_height' = fb[2]
         /\ IF fb # <<0, 0>>
              THEN /\ fbHeld' = fbHeld + 1
                   /\ callCaptured' = TRUE
                   /\ pc' = "frame_entry"
              ELSE /\ pc' = "cam_return"
                   /\ UNCHANGED <<fbHeld, callCaptured>>
    /\ UNCHANGED <<op, lifeVars, statVars, initVars, sram_buffer, y, w, bufState,
                   bufLine, drainBuf, prevScanBuf, dcPin, callReleases, callWindowTx,
                   callScanTx, entryFrames, entryDma, dmaVars, filter, src_y,
                   callTxFailed, callTxAfterFail, callWindowLog, callScanBits, lastTx,
                   unitVars>>

\* Faulty variant of pipeline_process_camera_frame_release: the frame is returned only
\* when the pipeline processed it (the early exit skips the release).
pipeline_process_camera_frame_release_skipped ==
    /\ pc = "cam_release"
    /\ IF g_pipelineInitialized
         THEN /\ fbHeld' = IF frameArg THEN fbHeld - 1 ELSE fbHeld
              /\ callReleases' = callReleases + 1
         ELSE UNCHANGED <<fbHeld, callReleases>>
    /\ pc' = "cam_return"
    /\ UNCHANGED <<op, lifeVars, statVars, initVars, frameVars, callCaptured,
                   callWindowTx, callScanTx, entryFrames, entryDma, dmaVars, callVars,
                   unitVars>>

\* pipeline_process_camera_frame(), line 417: esp_camera_fb_return(fb).
pipeline_process_camera_frame_release ==
    /\ pc = "cam_release"
    /\ fbHeld' = IF frameArg THEN fbHeld - 1 ELSE fbHeld
    /\ callReleases' = callReleases + 1
    /\ pc' = "cam_return"
    /\ UNCHANGED <<op, lifeVars, statVars, initVars, frameVars, callCaptured,
                   callWindowTx, callScanTx, entryFrames, entryDma, dmaVars, callVars,
                   unitVars>>

pipeline_process_camera_frame_return ==
    /\ pc = "cam_return"
    /\ pc' = "idle"
    /\ op' = "none"
    /\ UNCHANGED <<lifeVars, statVars, initVars, frameVars, camVars, dmaVars, callVars,
                   unitVars>>

Next ==
    \/ pipeline_init_entry
    \/ pipeline_init_alloc
    \/ init_display_spi_dma_bus
    \/ init_display_spi_dma_device
    \/ pipeline_init_transport_failed
    \/ pipeline_init_finish
    \/ pipeline_init_return
    \/ pipeline_deinit_entry
    \/ pipeline_deinit_chunk
    \/ pipeline_deinit_spi
    \/ pipeline_deinit_finish
    \/ pipeline_deinit_return
    \/ pipeline_process_frame_call
    \/ pipeline_process_frame_entry
    \/ pipeline_process_frame_window
    \/ pipeline_process_frame_getbuf
    \/ pipeline_process_frame_line_begin
    \/ process_scanline_with_downscale_done
    \/ pipeline_process_frame_transmit
    \/ spi_transfer_complete
    \/ pipeline_process_frame_line_end
    \/ pipeline_process_frame_count
    \/ pipeline_process_frame_return
    \/ pipeline_process_camera_frame_call
    \/ pipeline_process_camera_frame_capture
    \/ pipeline_process_camera_frame_release
    \/ pipeline_process_camera_frame_return

Spec == Init /\ [][Next]_vars

\* ------------------------------------------------- display transfer driver
\* send_display_dma_async and wait_display_dma_complete, called on the transport
\* as pipeline_init leaves it (or on the transport never initialized).

\* The state pipeline_init leaves behind when it returns true.
InitializedPipeline ==
    /\ pc = "idle"
    /\ op = "none"
    /\ g_pipelineInitialized = TRUE
    /\ g_spiDisplayHandle = TRUE
    /\ busInitialized = TRUE
    /\ bufAllocated = Buffers
    /\ activeBuffer = "A"
    /\ g_framesProcessed = 0
    /\ g_dmaCompletions = 0
    /\ initResult = TRUE
    /\ initEntry = FALSE
    /\ initFailedAt = "none"
    /\ frameArg = FALSE
    /\ sram_buffer = NoBuf
    /\ y = 0
    /\ w = 0
    /\ bufState = [b \in Buffers |-> "free"]
    /\ bufLine = [b \in Buffers |-> 0]
    /\ drainBuf = NoBuf
    /\ prevScanBuf = NoBuf
    /\ dcPin = 1
    /\ fbHeld = 0
    /\ callCaptured = FALSE
    /\ callReleases = 0
    /\ callWindowTx = 0
    /\ callScanTx = 0
    /\ entryFrames = 0
    /\ entryDma = 0
    /\ src_width = 0
    /\ src_height = 0
    /\ filter = "FILTER_NONE"
    /\ src_y = 0
    /\ callTxFailed = FALSE
    /\ callTxAfterFail = FALSE
    /\ callWindowLog = <<>>
    /\ callScanBits = {}
    /\ lastTx = [kind |-> "none", dc |-> 0]

InitDma == (InitPipelineVars \/ InitializedPipeline) /\ InitDmaVars /\ InitUnitVars

pipeVars == <<pc, op, lifeVars, g_framesProcessed, initVars, frameArg, sram_buffer, y,
              w, bufState, bufLine, drainBuf, prevScanBuf, camVars, callVars, unitVars>>

\* send_display_dma_async(data, length), lines 162-167: without a handle nothing
\* happens; else the shared descriptor is rewritten for this transfer.
send_display_dma_async_call ==
    /\ dmaPc = "idle"
    /\ \E data \in Buffers :
         IF ~g_spiDisplayHandle
           THEN UNCHANGED <<dmaPc, g_spiTransaction>>
           ELSE /\ g_spiTransaction' = [length |-> (DISPLAY_WIDTH * 2) * 8,
                                        tx_buffer |-> data, user |-> 1]
                /\ dmaPc' = "queue_trans"
    /\ UNCHANGED <<pipeVars, g_dmaCompletions, dcPin, transQueued, hwTrans, retQueued>>

\* spi_device_queue_trans(handle, &g_spiTransaction, portMAX_DELAY), line 171:
\* the pointer is queued once the queue has room; there is no timeout.
spi_device_queue_trans ==
    /\ dmaPc = "queue_trans"
    /\ transQueued < QUEUE_SIZE
    /\ transQueued' = transQueued + 1
    /\ dmaPc' = "idle"
    /\ UNCHANGED <<pipeVars, g_dmaCompletions, dcPin, g_spiTransaction, hwTrans,
                   retQueued>>

\* The SPI driver starts the next queued transfer: it reads the descriptor the
\* queued pointer refers to, and spi_pre_transfer_callback (lines 79-87) sets DC.
spi_transfer_start ==
    /\ transQueued > 0
    /\ hwTrans = NoBuf
    /\ transQueued' = transQueued - 1
    /\ hwTrans' = g_spiTransaction.tx_buffer
    /\ dcPin' = IF g_spiTransaction.user # 0 THEN 1 ELSE 0
    /\ UNCHANGED <<pipeVars, g_dmaCompletions, dmaPc, g_spiTransaction, retQueued>>

\* The peripheral finishes the running transfer; its result waits to be fetched.
spi_transfer_finish ==
    /\ hwTrans # NoBuf
    /\ hwTrans' = NoBuf
    /\ retQueued' = IF retQueued < QUEUE_SIZE THEN retQueued + 1 ELSE retQueued
    /\ UNCHANGED <<pipeVars, g_dmaCompletions, dcPin, dmaPc, g_spiTransaction,
                   transQueued>>

\* wait_display_dma_complete(), line 178.
wait_display_dma_complete_call ==
    /\ dmaPc = "idle"
    /\ g_dmaCompletions < MaxCompletions
    /\ dmaPc' = IF g_spiDisplayHandle THEN "get_trans_result" ELSE "idle"
    /\ UNCHANGED <<pipeVars, g_dmaCompletions, dcPin, g_spiTransaction, transQueued,
                   hwTrans, retQueued>>

\* spi_device_get_trans_result(handle, &rtrans, portMAX_DELAY), lines 181-182:
\* returns when a finished transfer is there; there is no timeout.
spi_device_get_trans_result ==
    /\ dmaPc = "get_trans_result"
    /\ retQueued > 0
    /\ retQueued' = retQueued - 1
    /\ g_dmaCompletions' = g_dmaCompletions + 1
    /\ dmaPc' = "idle"
    /\ UNCHANGED <<pipeVars, dcPin, g_spiTransaction, transQueued, hwTrans>>

NextDma ==
    \/ send_display_dma_async_call
    \/ spi_device_queue_trans
    \/ spi_transfer_start
    \/ spi_transfer_finish
    \/ wait_display_dma_complete_call
    \/ spi_device_get_trans_result

\* The control thread is scheduled: a blocking driver call returns once it can.
\* Nothing obliges the peripheral to start or to finish a transfer.
SpecDma ==
    /\ InitDma
    /\ [][NextDma]_vars
    /\ WF_vars(spi_device_queue_trans)
    /\ WF_vars(spi_device_get_trans_result)

\* ---------------------------------------------------------- scanline stage
\* process_scanline_with_downscale(src, src_width, dst, dst_width, filter) as a
\* unit: the caller's widths are drawn from StageSrcWidths and StageDstWidths.

\* SRAMChunkBuffer: the number of pixels one scanline buffer holds.
ScanlineCapacity == DISPLAY_WIDTH

StageSrcWidths == {DISPLAY_WIDTH, 2 * DISPLAY_WIDTH}
StageDstWidths == {1, DISPLAY_WIDTH \div 2, DISPLAY_WIDTH, DISPLAY_WIDTH + 1,
                   DISPLAY_WIDTH + StageOverrun}

\* process_scanline_with_downscale(), line 265: the 16.16 fixed-point scale.
\* For the widths of StageSrcWidths every intermediate value stays below 2^31,
\* so the uint32_t arithmetic of the code does not wrap.
StageScale(srcw, dstw) == (srcw * 65536) \div dstw

\* Faulty variant of StageSrcX: samples the middle of the source cell.
StageSrcX_middle(x, scale) == (x * scale + scale \div 2) \div 65536

\* process_scanline_with_downscale(), line 271: the source index for dst[x].
StageSrcX(x, scale) == (x * scale) \div 65536

\* downscaleFrame(): scaleX = (srcWidth << 16) / dstWidth
downscaleFrame_scaleX(srcWidth, dstWidth) == (srcWidth * 65536) \div dstWidth

\* downscaleFrame(): srcX = (x * scaleX) >> 16
downscaleFrame_srcX(x, scaleX) == (x * scaleX) \div 65536

\* The two nearest-neighbour downscalers.
StageFunctions == {"process_scanline_with_downscale", "downscaleFrame"}

InitStage ==
    /\ InitPipelineVars
    /\ InitDmaVars
    /\ InitChainVars
    /\ InitAuxVars
    /\ InitKernelVars
    /\ st_pc = "loop"
    /\ st_fn \in StageFunctions
    /\ st_src_width \in StageSrcWidths
    /\ st_dst_width \in StageDstWidths
    /\ st_x = 0
    /\ st_samples = <<>>

\* process_scanline_with_downscale(), lines 270-273: dst[x] = src[src_x]; x++.
process_scanline_with_downscale_pixel ==
    /\ st_fn = "process_scanline_with_downscale"
    /\ st_pc = "loop"
    /\ st_x < st_dst_width
    /\ st_samples' = Append(st_samples,
                            StageSrcX(st_x, StageScale(st_src_width, st_dst_width)))
    /\ st_x' = st_x + 1
    /\ UNCHANGED <<pipelineVars, auxVars, chainVars, kernelVars, st_pc, st_fn,
                   st_src_width, st_dst_width>>

\* process_scanline_with_downscale(), lines 270 and 276: the loop ends, the filter
\* runs over dst[0 .. dst_width).
process_scanline_with_downscale_filter ==
    /\ st_fn = "process_scanline_with_downscale"
    /\ st_pc = "loop"
    /\ ~(st_x < st_dst_width)
    /\ st_pc' = "filter"
    /\ UNCHANGED <<pipelineVars, auxVars, chainVars, kernelVars, st_fn, st_src_width,
                   st_dst_width, st_x, st_samples>>

\* process_scanline_with_downscale(), line 277.
process_scanline_with_downscale_return ==
    /\ st_pc = "filter"
    /\ st_pc' = "done"
    /\ UNCHANGED <<pipelineVars, auxVars, chainVars, kernelVars, st_fn, st_src_width,
                   st_dst_width, st_x, st_samples>>

\* downscaleFrame(), the row y = 0 of a frame (srcY = 0): dst[x] = src[srcX]; x++.
downscaleFrame_pixel ==
    /\ st_fn = "downscaleFrame"
    /\ st_pc = "loop"
    /\ st_x < st_dst_width
    /\ st_samples' = Append(st_samples,
                            downscaleFrame_srcX(st_x, downscaleFrame_scaleX(st_src_width,
                                                                            st_dst_width)))
    /\ st_x' = st_x + 1
    /\ UNCHANGED <<pipelineVars, auxVars, chainVars, kernelVars, st_pc, st_fn,
                   st_src_width, st_dst_width>>

\* downscaleFrame(): the loop over x ends, the function returns.
downscaleFrame_return ==
    /\ st_fn = "downscaleFrame"
    /\ st_pc = "loop"
    /\ ~(st_x < st_dst_width)
    /\ st_pc' = "done"
    /\ UNCHANGED <<pipelineVars, auxVars, chainVars, kernelVars, st_fn, st_src_width,
                   st_dst_width, st_x, st_samples>>

NextStage ==
    \/ process_scanline_with_downscale_pixel
    \/ process_scanline_with_downscale_filter
    \/ process_scanline_with_downscale_return
    \/ downscaleFrame_pixel
    \/ downscaleFrame_return

SpecStage == InitStage /\ [][NextStage]_vars

\* ------------------------------------------------------------ filter chains
\* FilterChain (virtual ImageFilter instances, external to the chain) and
\* FilterChainHPC (function pointers stored in the chain) driven by the same
\* calls: every operation below is applied to both chains.

\* Names passed to toggle(); no filter instance is called "Vignette" here.
ToggleNames == {"Sepia", "Grain", "Vignette"}

\* Indexes passed to setEnabled(): below the array, its first and last slot, and
\* beyond it.
EnabledIndexes == {-1, 0, MAX_FILTERS - 1, MAX_FILTERS}

\* --- FilterChain

\* Faulty variant of FilterChain_addFilter: no capacity check.
FilterChain_addFilter_unchecked(filters, count, f) ==
    [filters |-> [i \in DOMAIN filters |-> IF i = count THEN f ELSE filters[i]],
     count |-> count + 1,
     ret |-> TRUE]

\* FilterChain::addFilter(filter)
FilterChain_addFilter(filters, count, f) ==
    IF count >= MAX_FILTERS
    THEN [filters |-> filters, count |-> count, ret |-> FALSE]
    ELSE [filters |-> [filters EXCEPT ![count] = f],
          count |-> count + 1,
          ret |-> TRUE]

\* FilterChain::clear()
FilterChain_clear ==
    [filters |-> [i \in FilterSlots |-> NullFilter], count |-> 0]

\* FilterChain::process(data, width, height), from slot i on: the kernels it
\* applies to data, in the order it applies them.
RECURSIVE FilterChain_processFrom(_, _, _, _)
FilterChain_processFrom(filters, count, en, i) ==
    IF ~(i < count)
    THEN <<>>
    ELSE (IF filters[i] # NullFilter /\ en[filters[i]] THEN <<filters[i]>> ELSE <<>>)
         \o FilterChain_processFrom(filters, count, en, i + 1)

\* Faulty variant of FilterChain_process: the enabled flag is not looked at.
FilterChain_process_all(filters, count, en) ==
    FilterChain_processFrom(filters, count, [f \in DOMAIN en |-> TRUE], 0)

FilterChain_process(filters, count, en) ==
    FilterChain_processFrom(filters, count, en, 0)

\* FilterChain::toggle(name), from slot i on: the instances' flags afterwards and
\* the value returned.
RECURSIVE FilterChain_toggleFrom(_, _, _, _, _)
FilterChain_toggleFrom(filters, count, en, name, i) ==
    IF ~(i < count)
    THEN [enabled |-> en, ret |-> FALSE]
    ELSE IF filters[i] # NullFilter /\ FilterName(filters[i]) = name
         THEN [enabled |-> [en EXCEPT ![filters[i]] = ~en[filters[i]]], ret |-> TRUE]
         ELSE FilterChain_toggleFrom(filters, count, en, name, i + 1)

FilterChain_toggle(filters, count, en, name) ==
    FilterChain_toggleFrom(filters, count, en, name, 0)

\* FilterChain::setEnabled(index, enabled): the instances' flags afterwards.
FilterChain_setEnabled(filters, count, en, index, value) ==
    IF index >= 0 /\ index < count /\ filters[index] # NullFilter
    THEN [en EXCEPT ![filters[index]] = value]
    ELSE en

\* --- FilterChainHPC

\* FilterChainHPC::addFilter(name, func, params)
FilterChainHPC_addFilter(filters, count, name, func, params) ==
    IF count >= MAX_FILTERS_HPC
    THEN [filters |-> filters, count |-> count, ret |-> FALSE]
    ELSE [filters |-> [filters EXCEPT ![count] = [name |-> name, func |-> func,
                                                  params |-> params,
                                                  enabled |-> TRUE]],
          count |-> count + 1,
          ret |-> TRUE]

\* Faulty variant of FilterChainHPC_clear: the slots are reset as well.
FilterChainHPC_clear_wiped(filters) ==
    [filters |-> [i \in DOMAIN filters |-> HPCFilterEmpty], count |-> 0]

\* FilterChainHPC::clear(): only _count is reset.
FilterChainHPC_clear(filters) ==
    [filters |-> filters, count |-> 0]

\* One kernel call of FilterChainHPC::process.
HPCKernelCall(slot) == [func |-> slot.func, params |-> slot.params]

\* FilterChainHPC::process(data, width, height), from slot i on.
RECURSIVE FilterChainHPC_processFrom(_, _, _)
FilterChainHPC_processFrom(filters, count, i) ==
    IF ~(i < count)
    THEN <<>>
    ELSE (IF filters[i].enabled /\ filters[i].func # "nullptr"
          THEN <<HPCKernelCall(filters[i])>>
          ELSE <<>>)
         \o FilterChainHPC_processFrom(filters, count, i + 1)

\* Faulty variant of FilterChainHPC_process: the slots are visited from the last
\* one down.
RECURSIVE FilterChainHPC_process_descending(_, _)
FilterChainHPC_process_descending(filters, count) ==
    IF count <= 0
    THEN <<>>
    ELSE (IF filters[count - 1].enabled /\ filters[count - 1].func # "nullptr"
          THEN <<HPCKernelCall(filters[count - 1])>>
          ELSE <<>>)
         \o FilterChainHPC_process_descending(filters, count - 1)

FilterChainHPC_process(filters, count) ==
    FilterChainHPC_processFrom(filters, count, 0)

\* FilterChainHPC::toggle(name), from slot i on.
RECURSIVE FilterChainHPC_toggleFrom(_, _, _, _)
FilterChainHPC_toggleFrom(filters, count, name, i) ==
    IF ~(i < count)
    THEN [filters |-> filters, ret |-> FALSE]
    ELSE IF filters[i].name # "nullptr" /\ filters[i].name = name
         THEN [filters |-> [filters EXCEPT ![i].enabled = ~filters[i].enabled],
               ret |-> TRUE]
         ELSE FilterChainHPC_toggleFrom(filters, count, name, i + 1)

\* Faulty variant of FilterChainHPC_toggle: every matching slot is flipped.
FilterChainHPC_toggle_every(filters, count, name) ==
    [filters |-> [i \in DOMAIN filters |->
                     IF i < count /\ filters[i].name = name
                     THEN [filters[i] EXCEPT !.enabled = ~filters[i].enabled]
                     ELSE filters[i]],
     ret |-> \E i \in DOMAIN filters : i < count /\ filters[i].name = name]

FilterChainHPC_toggle(filters, count, name) ==
    FilterChainHPC_toggleFrom(filters, count, name, 0)

\* FilterChainHPC::setEnabled(index, enabled)
FilterChainHPC_setEnabled(filters, count, index, value) ==
    IF index >= 0 /\ index < count
    THEN [filters EXCEPT ![index].enabled = value]
    ELSE filters

\* --- the calls

\* addFilter(&f) on FilterChain, addFilter(name, func, params) on FilterChainHPC.
chain_addFilter ==
    \E f \in FilterInstances :
        /\ f = SecondFilter => secondAdds < MaxSecondAdds
        /\ secondAdds' = IF f = SecondFilter THEN secondAdds + 1 ELSE secondAdds
        /\ LET fc == FilterChain_addFilter(fc_filters, fc_count, f)
               hpc == FilterChainHPC_addFilter(hpc_filters, hpc_count, FilterName(f),
                                               FilterFunc(f), FilterParams(f))
           IN  /\ fc_filters' = fc.filters
               /\ fc_count' = fc.count
               /\ hpc_filters' = hpc.filters
               /\ hpc_count' = hpc.count
               /\ lastCall' = [op |-> "addFilter", arg |-> "none", fc |-> fc.ret,
                               hpc |-> hpc.ret]
               /\ addedSinceClear' = IF fc.ret THEN Append(addedSinceClear, f)
                                               ELSE addedSinceClear
               /\ fc_data' = <<>>
               /\ hpc_data' = <<>>
               /\ UNCHANGED <<pipelineVars, auxVars, stageVars, kernelVars, enabled,
                              chainClears>>

\* clear() on both chains.
chain_clear ==
    /\ chainClears < MaxClears
    /\ LET fc == FilterChain_clear
           hpc == FilterChainHPC_clear(hpc_filters)
       IN  /\ fc_filters' = fc.filters
           /\ fc_count' = fc.count
           /\ hpc_filters' = hpc.filters
           /\ hpc_count' = hpc.count
    /\ lastCall' = [op |-> "clear", arg |-> "none", fc |-> "void", hpc |-> "void"]
    /\ addedSinceClear' = <<>>
    /\ chainClears' = chainClears + 1
    /\ fc_data' = <<>>
    /\ hpc_data' = <<>>
    /\ UNCHANGED <<pipelineVars, auxVars, stageVars, kernelVars, enabled, secondAdds>>

\* process(data, width, height) on both chains.
chain_process ==
    /\ fc_data' = FilterChain_process(fc_filters, fc_count, enabled)
    /\ hpc_data' = FilterChainHPC_process(hpc_filters, hpc_count)
    /\ lastCall' = [op |-> "process", arg |-> "none", fc |-> "void", hpc |-> "void"]
    /\ UNCHANGED <<pipelineVars, auxVars, stageVars, kernelVars, fc_filters, fc_count,
                   enabled, hpc_filters, hpc_count, addedSinceClear, chainClears,
                   secondAdds>>

\* toggle(name) on both chains.
chain_toggle ==
    \E name \in ToggleNames :
        LET fc == FilterChain_toggle(fc_filters, fc_count, enabled, name)
            hpc == FilterChainHPC_toggle(hpc_filters, hpc_count, name)
        IN  /\ enabled' = fc.enabled
            /\ hpc_filters' = hpc.filters
            /\ lastCall' = [op |-> "toggle", arg |-> name, fc |-> fc.ret, hpc |-> hpc.ret]
            /\ fc_data' = <<>>
            /\ hpc_data' = <<>>
            /\ UNCHANGED <<pipelineVars, auxVars, stageVars, kernelVars, fc_filters,
                           fc_count, hpc_count, addedSinceClear, chainClears,
                           secondAdds>>

\* setEnabled(index, enabled) on both chains.
chain_setEnabled ==
    \E index \in EnabledIndexes, value \in BOOLEAN :
        /\ enabled' = FilterChain_setEnabled(fc_filters, fc_count, enabled, index, value)
        /\ hpc_filters' = FilterChainHPC_setEnabled(hpc_filters, hpc_count, index, value)
        /\ lastCall' = [op |-> "setEnabled", arg |-> "none", fc |-> "void",
                           hpc |-> "void"]
        /\ fc_data' = <<>>
        /\ hpc_data' = <<>>
        /\ UNCHANGED <<pipelineVars, auxVars, stageVars, kernelVars, fc_filters, fc_count,
                       hpc_count, addedSinceClear, chainClears, secondAdds>>

InitChain == InitPipelineVars /\ InitDmaVars /\ InitUnitVars

NextChain ==
    \/ chain_addFilter
    \/ chain_clear
    \/ chain_process
    \/ chain_toggle
    \/ chain_setEnabled

SpecChain == InitChain /\ [][NextChain]_vars

\* ------------------------------------------------------------ pixel kernels
\* The per-pixel work of the filter kernels: what one kernel makes of data[i].

\* Conversion to uint8_t.
U8(n) == n % 256

\* rgb565_to_rgb888(pixel, r, g, b): the triple <<r, g, b>>.
rgb565_to_rgb888(pixel) ==
    <<((pixel \div 2048) % 32) * 8, ((pixel \div 32) % 64) * 4, (pixel % 32) * 8>>

\* Faulty variant of rgb888_to_rgb565: green is shifted like red and blue.
rgb888_to_rgb565_green5(r, g, b) ==
    (U8(r) \div 8) * 2048 + (U8(g) \div 8) * 32 + (U8(b) \div 8)

\* rgb888_to_rgb565(r, g, b), with uint8_t parameters: the three bit fields do
\* not overlap, so the bitwise or is their sum.
rgb888_to_rgb565(r, g, b) ==
    (U8(r) \div 8) * 2048 + (U8(g) \div 4) * 32 + (U8(b) \div 8)

\* (r * 77 + g * 150 + b * 29) >> 8
Luminance(r, g, b) == (r * 77 + g * 150 + b * 29) \div 256

\* GrayscaleFilter::process, one pixel.
GrayscaleFilter_process(pixel) ==
    LET c == rgb565_to_rgb888(pixel)
        gray == U8(Luminance(c[1], c[2], c[3]))
    IN  rgb888_to_rgb565(gray, gray, gray)

\* rgb565_unpack_fast and rgb888_to_565_fast.
rgb565_unpack_fast(pixel) == rgb565_to_rgb888(pixel)
rgb888_to_565_fast(r, g, b) == rgb888_to_rgb565(r, g, b)

\* min(a, b), max(a, b)
min(a, b) == IF a < b THEN a ELSE b
max(a, b) == IF a > b THEN a ELSE b

\* SepiaFilter::process, one pixel.
SepiaFilter_process(pixel) ==
    LET c == rgb565_to_rgb888(pixel)
        tr == (c[1] * 101 + c[2] * 197 + c[3] * 48) \div 256
        tg == (c[1] * 89 + c[2] * 176 + c[3] * 43) \div 256
        tb == (c[1] * 70 + c[2] * 137 + c[3] * 34) \div 256
    IN  rgb888_to_rgb565(min(255, tr), min(255, tg), min(255, tb))

\* lut::<table>[i]: a 256-entry table per output channel and input channel,
\* holding the product the multiply-and-shift kernel computes for that channel.
\* SEPIA_LUT_xy is the share of input channel y in output channel x.
lut(table, i) ==
    LET coef == CASE table = "GRAY_LUT_R" -> 77
                  [] table = "GRAY_LUT_G" -> 150
                  [] table = "GRAY_LUT_B" -> 29
                  [] table = "SEPIA_LUT_RR" -> 101
                  [] table = "SEPIA_LUT_RG" -> 197
                  [] table = "SEPIA_LUT_RB" -> 48
                  [] table = "SEPIA_LUT_GR" -> 89
                  [] table = "SEPIA_LUT_GG" -> 176
                  [] table = "SEPIA_LUT_GB" -> 43
                  [] table = "SEPIA_LUT_BR" -> 70
                  [] table = "SEPIA_LUT_BG" -> 137
                  [] table = "SEPIA_LUT_BB" -> 34
    IN  (i * coef) \div 256

\* filter_grayscale_hpc, one pixel: r = (pixel >> 8) & 0xF8 and so on, the
\* tables read at r >> 3, g >> 2, b >> 3.
filter_grayscale_hpc(pixel) ==
    LET r == ((pixel \div 2048) % 32) * 8
        g == ((pixel \div 32) % 64) * 4
        b == (pixel % 32) * 8
        gray == U8(lut("GRAY_LUT_R", r \div 8) + lut("GRAY_LUT_G", g \div 4)
                      + lut("GRAY_LUT_B", b \div 8))
    IN  rgb888_to_565_fast(gray, gray, gray)

\* filter_sepia_hpc, one pixel: the tables read at ri = r, gi = g, bi = b.
filter_sepia_hpc(pixel) ==
    LET ri == ((pixel \div 2048) % 32) * 8
        gi == ((pixel \div 32) % 64) * 4
        bi == (pixel % 32) * 8
        tr == lut("SEPIA_LUT_RR", ri) + lut("SEPIA_LUT_RG", gi) + lut("SEPIA_LUT_RB", bi)
        tg == lut("SEPIA_LUT_GR", ri) + lut("SEPIA_LUT_GG", gi) + lut("SEPIA_LUT_GB", bi)
        tb == lut("SEPIA_LUT_BR", ri) + lut("SEPIA_LUT_BG", gi) + lut("SEPIA_LUT_BB", bi)
    IN  rgb888_to_565_fast(IF tr > 255 THEN 255 ELSE U8(tr),
                           IF tg > 255 THEN 255 ELSE U8(tg),
                           IF tb > 255 THEN 255 ELSE U8(tb))

\* VintageFilter::process, one pixel.
VintageFilter_process(pixel, warmth, fadeAmount) ==
    LET c == rgb565_to_rgb888(pixel)
        lum == (c[1] * 77 + c[2] * 150 + c[3] * 29) \div 256
        r == U8((c[1] * 180 + lum * 76) \div 256)
        g == U8((c[2] * 180 + lum * 76) \div 256)
        b == U8((c[3] * 180 + lum * 76) \div 256)
        rWarm == r + warmth
        gWarm == g + warmth \div 2
    IN  rgb888_to_rgb565(U8(min(255, max(fadeAmount, rWarm))),
                         U8(min(255, max(fadeAmount, gWarm))),
                         U8(min(255, max(fadeAmount, b))))

\* filter_vintage_hpc, one pixel: warmth = 30, fade = 20, desat_factor = 179.
filter_vintage_hpc(pixel) ==
    LET c == rgb565_unpack_fast(pixel)
        lum == (c[1] * 77 + c[2] * 150 + c[3] * 29) \div 256
        r == U8((c[1] * 179 + lum * (256 - 179)) \div 256)
        g == U8((c[2] * 179 + lum * (256 - 179)) \div 256)
        b == U8((c[3] * 179 + lum * (256 - 179)) \div 256)
        rW == r + 30
        gW == g + 30 \div 2
    IN  rgb888_to_565_fast(IF rW > 255 THEN 255 ELSE (IF rW < 20 THEN 20 ELSE rW),
                           IF gW > 255 THEN 255 ELSE (IF gW < 20 THEN 20 ELSE gW),
                           IF b < 20 THEN 20 ELSE b)

\* Channel values next to the one that runs over 0 .. 255 in RgbInputs.
ChannelSamples == {0, 255}

\* The triples handed to rgb888_to_rgb565: every channel takes every value.
RgbInputs ==
    UNION {{<<v, s, t>>, <<s, v, t>>, <<s, t, v>>} :
              v \in 0 .. 255, s \in ChannelSamples, t \in ChannelSamples}

\* The blue fields of the pixels handed to the kernels; their red and green
\* fields take every value.
Blue5Samples == {0, 1, 16, 31}

PixelInputs ==
    {r5 * 2048 + g6 * 32 + b5 : r5 \in 0 .. 31, g6 \in 0 .. 63, b5 \in Blue5Samples}

InitPixel ==
    /\ InitPipelineVars
    /\ InitDmaVars
    /\ InitStageVars
    /\ InitChainVars
    /\ InitAuxVars
    /\ InitVignetteVars
    /\ InitAccessVars
    /\ InitClampVars
    /\ InitGrainVars
    /\ \/ px_rgb \in RgbInputs /\ px_pixel = 0
       \/ px_rgb = <<0, 0, 0>> /\ px_pixel \in PixelInputs
    /\ px_unpacked = <<>>
    /\ px_kernel = "none"
    /\ px_data = px_pixel

\* rgb565_to_rgb888(rgb888_to_rgb565(r, g, b), r, g, b)
pixel_roundtrip ==
    /\ px_kernel = "none"
    /\ px_unpacked' = rgb565_to_rgb888(rgb888_to_rgb565(px_rgb[1], px_rgb[2], px_rgb[3]))
    /\ px_kernel' = "roundtrip"
    /\ UNCHANGED <<pipelineVars, auxVars, stageVars, chainVars, grainVars, vignetteVars,
                   accessVars, clampVars, px_rgb, px_pixel, px_data>>

\* GrayscaleFilter::process on data[i].
pixel_GrayscaleFilter ==
    /\ px_kernel = "none"
    /\ px_data' = GrayscaleFilter_process(px_pixel)
    /\ px_kernel' = "GrayscaleFilter"
    /\ UNCHANGED <<pipelineVars, auxVars, stageVars, chainVars, grainVars, vignetteVars,
                   accessVars, clampVars, px_rgb, px_unpacked, px_pixel>>

\* filter_grayscale_hpc on data[i].
pixel_filter_grayscale_hpc ==
    /\ px_kernel = "none"
    /\ px_data' = filter_grayscale_hpc(px_pixel)
    /\ px_kernel' = "filter_grayscale_hpc"
    /\ UNCHANGED <<pipelineVars, auxVars, stageVars, chainVars, grainVars, vignetteVars,
                   accessVars, clampVars, px_rgb, px_unpacked, px_pixel>>

\* SepiaFilter::process on data[i].
pixel_SepiaFilter ==
    /\ px_kernel = "none"
    /\ px_data' = SepiaFilter_process(px_pixel)
    /\ px_kernel' = "SepiaFilter"
    /\ UNCHANGED <<pipelineVars, auxVars, stageVars, chainVars, grainVars, vignetteVars,
                   accessVars, clampVars, px_rgb, px_unpacked, px_pixel>>

\* filter_sepia_hpc on data[i].
pixel_filter_sepia_hpc ==
    /\ px_kernel = "none"
    /\ px_data' = filter_sepia_hpc(px_pixel)
    /\ px_kernel' = "filter_sepia_hpc"
    /\ UNCHANGED <<pipelineVars, auxVars, stageVars, chainVars, grainVars, vignetteVars,
                   accessVars, clampVars, px_rgb, px_unpacked, px_pixel>>

\* VintageFilter::process on data[i], warmth and fadeAmount as constructed.
pixel_VintageFilter ==
    /\ px_kernel = "none"
    /\ px_data' = VintageFilter_process(px_pixel, 30, 20)
    /\ px_kernel' = "VintageFilter"
    /\ UNCHANGED <<pipelineVars, auxVars, stageVars, chainVars, grainVars, vignetteVars,
                   accessVars, clampVars, px_rgb, px_unpacked, px_pixel>>

\* filter_vintage_hpc on data[i].
pixel_filter_vintage_hpc ==
    /\ px_kernel = "none"
    /\ px_data' = filter_vintage_hpc(px_pixel)
    /\ px_kernel' = "filter_vintage_hpc"
    /\ UNCHANGED <<pipelineVars, auxVars, stageVars, chainVars, grainVars, vignetteVars,
                   accessVars, clampVars, px_rgb, px_unpacked, px_pixel>>

NextPixel ==
    \/ pixel_roundtrip
    \/ pixel_GrayscaleFilter
    \/ pixel_filter_grayscale_hpc
    \/ pixel_SepiaFilter
    \/ pixel_filter_sepia_hpc
    \/ pixel_VintageFilter
    \/ pixel_filter_vintage_hpc

SpecPixel == InitPixel /\ [][NextPixel]_vars

\* --------------------------------------------------------- vignette kernels
\* VignetteFilter::process, filter_vignette_hpc and
\* pipeline_filter_vignette_frame at one pixel (vg_x, vg_y) of the image: the
\* kernels treat every pixel on its own.

VignetteKernels ==
    {"VignetteFilter", "filter_vignette_hpc", "pipeline_filter_vignette_frame"}

\* Values of m_strength_q8 / strength_q8 (uint8_t).
StrengthSamples == {0, 128, 255}

\* Pixels the kernels are run on: white, black and a mixed one.
VignettePixels == {65535, 0, 33808}

\* cx * cx + cy * cy with cx = width >> 1, cy = height >> 1.
VignetteMaxDistSq(width, height) ==
    (width \div 2) * (width \div 2) + (height \div 2) * (height \div 2)

\* dx * dx + dy * dy
VignetteDistSq(width, height, col, row) ==
    (col - width \div 2) * (col - width \div 2)
        + (row - height \div 2) * (row - height \div 2)

\* The quotient each kernel divides by maxDistSq for.
VignetteQuotient(kernel, distSq, strength, maxDistSq) ==
    CASE kernel = "VignetteFilter" -> (distSq * strength) \div maxDistSq
      [] kernel = "filter_vignette_hpc" -> 65536 \div maxDistSq
      [] kernel = "pipeline_filter_vignette_frame" -> 16777216 \div maxDistSq

\* VignetteFilter::process: factor, given (distSq * m_strength_q8) / maxDistSq.
VignetteFilter_factor(q) ==
    LET factor == 256 - q
    IN  IF factor < 0 THEN 0 ELSE factor

\* filter_vignette_hpc: factor, given inv_max.
filter_vignette_hpc_factor(dist_sq, strength, inv_max) ==
    LET dark == (dist_sq * strength * inv_max) \div 65536
        factor == 256 - dark
    IN  IF factor < 64 THEN 64 ELSE factor

\* pipeline_filter_vignette_frame, the pixels after the groups of four: factor,
\* given inv_max_dist_sq.
pipeline_filter_vignette_frame_factor(dist_sq, inv_max_dist_sq) ==
    LET factor == 256 - ((dist_sq * inv_max_dist_sq) \div 65536)
    IN  IF factor < 0 THEN 0 ELSE factor

\* filter_vignette_x4: the factor of one pixel of a group of four.
filter_vignette_x4_factor(dist_sq, inv_max_dist_sq) ==
    pipeline_filter_vignette_frame_factor(dist_sq, inv_max_dist_sq)

\* The factor of the kernel at column col (x in the code), given the quotient q.
VignetteFactor(kernel, width, distSq, strength, col, q) ==
    CASE kernel = "VignetteFilter" -> VignetteFilter_factor(q)
      [] kernel = "filter_vignette_hpc" -> filter_vignette_hpc_factor(distSq, strength, q)
      [] kernel = "pipeline_filter_vignette_frame" ->
            IF col < (width \div 4) * 4
            THEN filter_vignette_x4_factor(distSq, q)
            ELSE pipeline_filter_vignette_frame_factor(distSq, q)

\* rgb888_to_rgb565((r * factor) >> 8, (g * factor) >> 8, (b * factor) >> 8)
VignetteApply(pixel, factor) ==
    LET c == rgb565_to_rgb888(pixel)
    IN  rgb888_to_rgb565((c[1] * factor) \div 256, (c[2] * factor) \div 256,
                         (c[3] * factor) \div 256)

\* What an integer division by zero leaves in the quotient when it does not trap.
DivByZeroQuotients == {0, 1, 65535}

InitVignette ==
    /\ InitPipelineVars
    /\ InitDmaVars
    /\ InitStageVars
    /\ InitChainVars
    /\ InitAuxVars
    /\ InitPixelVars
    /\ InitAccessVars
    /\ InitClampVars
    /\ InitGrainVars
    /\ vg_kernel \in VignetteKernels
    /\ vg_width \in 1 .. MaxVignetteDim
    /\ vg_height \in 1 .. MaxVignetteDim
    /\ vg_strength \in (IF vg_kernel = "pipeline_filter_vignette_frame"
                        THEN {255} ELSE StrengthSamples)
    /\ vg_x \in 0 .. vg_width - 1
    /\ vg_y \in 0 .. vg_height - 1
    /\ vg_pc = "call"
    /\ vg_factor = 0
    /\ vg_pixel \in VignettePixels
    /\ vg_data = vg_pixel

\* The kernel reaches and rewrites the pixel (vg_x, vg_y).
vignette_pixel ==
    /\ vg_pc = "call"
    /\ VignetteMaxDistSq(vg_width, vg_height) # 0
    /\ LET distSq == VignetteDistSq(vg_width, vg_height, vg_x, vg_y)
           q == VignetteQuotient(vg_kernel, distSq, vg_strength,
                                 VignetteMaxDistSq(vg_width, vg_height))
           factor == VignetteFactor(vg_kernel, vg_width, distSq, vg_strength, vg_x, q)
       IN  /\ vg_factor' = factor
           /\ vg_data' = VignetteApply(vg_pixel, factor)
    /\ vg_pc' = "done"
    /\ UNCHANGED <<pipelineVars, auxVars, stageVars, chainVars, grainVars, pixelVars,
                   accessVars, clampVars, vg_kernel, vg_width, vg_height, vg_strength,
                   vg_x, vg_y, vg_pixel>>

\* maxDistSq is 0 (width and height at most 1): the division by it is undefined;
\* it traps, or it leaves some quotient and the kernel goes on.
vignette_divide_by_zero ==
    /\ vg_pc = "call"
    /\ VignetteMaxDistSq(vg_width, vg_height) = 0
    /\ \/ /\ vg_pc' = "fault"
          /\ UNCHANGED <<vg_factor, vg_data>>
       \/ \E q \in DivByZeroQuotients :
             LET distSq == VignetteDistSq(vg_width, vg_height, vg_x, vg_y)
                 factor == VignetteFactor(vg_kernel, vg_width, distSq, vg_strength,
                                          vg_x, q)
             IN  /\ vg_factor' = factor
                 /\ vg_data' = VignetteApply(vg_pixel, factor)
                 /\ vg_pc' = "done"
    /\ UNCHANGED <<pipelineVars, auxVars, stageVars, chainVars, grainVars, pixelVars,
                   accessVars, clampVars, vg_kernel, vg_width, vg_height, vg_strength,
                   vg_x, vg_y, vg_pixel>>

NextVignette ==
    \/ vignette_pixel
    \/ vignette_divide_by_zero

SpecVignette == InitVignette /\ [][NextVignette]_vars

\* ----------------------------------------------------------- buffer accesses
\* The indices of data[] one call of process(data, width, height) reads and
\* writes: GrayscaleFilter for the kernels that loop over i < width * height,
\* and the three neighbourhood kernels.

AccessKernels == {"GrayscaleFilter", "EdgeDetectFilter", "BlurFilter", "SharpenFilter"}
NeighbourhoodKernels == {"EdgeDetectFilter", "BlurFilter", "SharpenFilter"}

\* EdgeDetectFilter::process: lineBuffer[3][320], `if (width > 320) return;`
LineBufferWidth == 320

\* GrayscaleFilter::process: for (i = 0; i < width * height; i++) data[i] = f(data[i])
GrayscaleFilter_indices(width, height) == 0 .. width * height - 1

\* Faulty variant of EdgeDetectFilter_reads: the next line is loaded without
\* asking whether y + 2 < height.
EdgeDetectFilter_reads_unguarded(width, height) ==
    IF width > LineBufferWidth
    THEN {}
    ELSE {row * width + col : row \in 0 .. min(3, height) - 1, col \in 0 .. width - 1}
         \cup {(row + 2) * width + col : row \in 1 .. height - 2, col \in 0 .. width - 1}

\* EdgeDetectFilter::process, the pixels read: the first rows (row < 3 and
\* row < height) into the line buffers, then row y + 2 after each row y of the
\* main loop when y + 2 < height.
EdgeDetectFilter_reads(width, height) ==
    IF width > LineBufferWidth
    THEN {}
    ELSE {row * width + col : row \in 0 .. min(3, height) - 1, col \in 0 .. width - 1}
         \cup {(row + 2) * width + col :
                  row \in {r \in 1 .. height - 2 : r + 2 < height}, col \in 0 .. width - 1}

\* EdgeDetectFilter::process, the pixels written: data[y * width + x] for
\* 1 <= y < height - 1, 1 <= x < width - 1.
EdgeDetectFilter_writes(width, height) ==
    IF width > LineBufferWidth
    THEN {}
    ELSE {row * width + col : row \in 1 .. height - 2, col \in 1 .. width - 2}

\* BlurFilter::process: the pixels it averages around, y and x from 1 in steps of 2.
BlurFilter_centers(width, height) ==
    {<<col, row>> \in (1 .. width - 2) \X (1 .. height - 2) : col % 2 = 1 /\ row % 2 = 1}

\* BlurFilter::process: data[(y + ky) * width + (x + kx)] for ky, kx in -1 .. 1.
BlurFilter_reads(width, height) ==
    {(c[2] + ky) * width + (c[1] + kx) :
        c \in BlurFilter_centers(width, height), ky \in -1 .. 1, kx \in -1 .. 1}

\* BlurFilter::process: data[y * width + x]
BlurFilter_writes(width, height) ==
    {c[2] * width + c[1] : c \in BlurFilter_centers(width, height)}

\* SharpenFilter::process: idx = y * width + x for the inner pixels.
SharpenFilter_writes(width, height) ==
    {row * width + col : row \in 1 .. height - 2, col \in 1 .. width - 2}

\* SharpenFilter::process: data[idx], data[idx - 1], data[idx + 1],
\* data[idx - width], data[idx + width].
SharpenFilter_reads(width, height) ==
    UNION {{idx, idx - 1, idx + 1, idx - width, idx + width} :
              idx \in SharpenFilter_writes(width, height)}

AccessWidths == (1 .. MaxAccessDim) \cup {LineBufferWidth + 1}
AccessHeights == 1 .. MaxAccessDim

InitAccess ==
    /\ InitPipelineVars
    /\ InitDmaVars
    /\ InitStageVars
    /\ InitChainVars
    /\ InitAuxVars
    /\ InitPixelVars
    /\ InitVignetteVars
    /\ InitClampVars
    /\ InitGrainVars
    /\ nb_kernel \in AccessKernels
    /\ nb_width \in AccessWidths
    /\ nb_height \in AccessHeights
    /\ nb_pc = "call"
    /\ nb_reads = {}
    /\ nb_writes = {}

\* GrayscaleFilter::process(data, width, height)
access_GrayscaleFilter ==
    /\ nb_pc = "call"
    /\ nb_kernel = "GrayscaleFilter"
    /\ nb_reads' = GrayscaleFilter_indices(nb_width, nb_height)
    /\ nb_writes' = GrayscaleFilter_indices(nb_width, nb_height)
    /\ nb_pc' = "done"
    /\ UNCHANGED <<pipelineVars, auxVars, stageVars, chainVars, grainVars, pixelVars,
                   vignetteVars, clampVars, nb_kernel, nb_width, nb_height>>

\* EdgeDetectFilter::process(data, width, height)
access_EdgeDetectFilter ==
    /\ nb_pc = "call"
    /\ nb_kernel = "EdgeDetectFilter"
    /\ nb_reads' = EdgeDetectFilter_reads(nb_width, nb_height)
    /\ nb_writes' = EdgeDetectFilter_writes(nb_width, nb_height)
    /\ nb_pc' = "done"
    /\ UNCHANGED <<pipelineVars, auxVars, stageVars, chainVars, grainVars, pixelVars,
                   vignetteVars, clampVars, nb_kernel, nb_width, nb_height>>

\* BlurFilter::process(data, width, height)
access_BlurFilter ==
    /\ nb_pc = "call"
    /\ nb_kernel = "BlurFilter"
    /\ nb_reads' = BlurFilter_reads(nb_width, nb_height)
    /\ nb_writes' = BlurFilter_writes(nb_width, nb_height)
    /\ nb_pc' = "done"
    /\ UNCHANGED <<pipelineVars, auxVars, stageVars, chainVars, grainVars, pixelVars,
                   vignetteVars, clampVars, nb_kernel, nb_width, nb_height>>

\* SharpenFilter::process(data, width, height)
access_SharpenFilter ==
    /\ nb_pc = "call"
    /\ nb_kernel = "SharpenFilter"
    /\ nb_reads' = SharpenFilter_reads(nb_width, nb_height)
    /\ nb_writes' = SharpenFilter_writes(nb_width, nb_height)
    /\ nb_pc' = "done"
    /\ UNCHANGED <<pipelineVars, auxVars, stageVars, chainVars, grainVars, pixelVars,
                   vignetteVars, clampVars, nb_kernel, nb_width, nb_height>>

NextAccess ==
    \/ access_GrayscaleFilter
    \/ access_EdgeDetectFilter
    \/ access_BlurFilter
    \/ access_SharpenFilter

SpecAccess == InitAccess /\ [][NextAccess]_vars

\* ---------------------------------------------------------------- saturation
\* The kernels that add to or scale a channel, applied to one pixel: what they
\* compute for r, g, b (raw), what they hand to the 8-bit channels (wide), and
\* the pixel they store.

\* constrain(amt, low, high)
constrain(amt, low, high) == IF amt < low THEN low ELSE (IF amt > high THEN high ELSE amt)

\* v < 0 ? 0 : (v > 255 ? 255 : v)
Clamp255(v) == IF v < 0 THEN 0 ELSE (IF v > 255 THEN 255 ELSE v)

\* The value an int16_t holds after n is assigned to it.
S16(n) == ((n + 32768) % 65536) - 32768

\* The value an int8_t holds after the unsigned n is assigned to it.
S8(n) == IF (n % 256) >= 128 THEN (n % 256) - 256 ELSE n % 256

\* a / b of two ints, b > 0: the quotient is truncated toward zero.
TruncDiv(a, b) == IF a >= 0 THEN a \div b ELSE -((-a) \div b)

\* The kernel's result for the three channels: the 8-bit channel values and the
\* pixel packed from them.
KernelResult(raw, wide) ==
    [raw |-> raw, wide |-> wide,
     data |-> rgb888_to_rgb565(wide[1], wide[2], wide[3])]

\* Faulty variant of CoolFilter_process: the values are stored without constrain.
CoolFilter_process_unclamped(pixel, coolness, contrast) ==
    LET c == rgb565_to_rgb888(pixel)
        rC == (((c[1] - 128) * (256 + contrast * 2)) \div 256) + 128 - coolness \div 2
        gC == (((c[2] - 128) * (256 + contrast * 2)) \div 256) + 128 + coolness \div 4
        bC == (((c[3] - 128) * (256 + contrast * 2)) \div 256) + 128 + coolness
    IN  KernelResult(<<rC, gC, bC>>, <<rC, gC, bC>>)

\* CoolFilter::process, one pixel.
CoolFilter_process(pixel, coolness, contrast) ==
    LET c == rgb565_to_rgb888(pixel)
        rC == (((c[1] - 128) * (256 + contrast * 2)) \div 256) + 128 - coolness \div 2
        gC == (((c[2] - 128) * (256 + contrast * 2)) \div 256) + 128 + coolness \div 4
        bC == (((c[3] - 128) * (256 + contrast * 2)) \div 256) + 128 + coolness
    IN  KernelResult(<<rC, gC, bC>>,
                     <<constrain(rC, 0, 255), constrain(gC, 0, 255),
                       constrain(bC, 0, 255)>>)

\* VibrantFilter::process, one pixel.
VibrantFilter_process(pixel, saturationBoost, clarityBoost) ==
    LET c == rgb565_to_rgb888(pixel)
        lum == (c[1] * 77 + c[2] * 150 + c[3] * 29) \div 256
        boostFactor == 256 + saturationBoost * 2
        S(v) == lum + (((v - lum) * boostFactor) \div 256)
        K(v) == TruncDiv((v - 128) * (256 + clarityBoost), 256) + 128
        raw == <<K(S(c[1])), K(S(c[2])), K(S(c[3]))>>
    IN  KernelResult(raw, <<constrain(raw[1], 0, 255), constrain(raw[2], 0, 255),
                            constrain(raw[3], 0, 255)>>)

\* BlurFilter::process, one pixel: the 3x3 sum is the pixel itself and its eight
\* neighbours; rAvg = (rSum * 7) >> 6 is stored as it is.
BlurFilter_process(pixel, neighbour) ==
    LET c == rgb565_to_rgb888(pixel)
        n == rgb565_to_rgb888(neighbour)
        raw == <<((c[1] + 8 * n[1]) * 7) \div 64, ((c[2] + 8 * n[2]) * 7) \div 64,
                 ((c[3] + 8 * n[3]) * 7) \div 64>>
    IN  KernelResult(raw, raw)

\* SharpenFilter::process, one pixel: rSum is the sum of the four neighbours.
SharpenFilter_process(pixel, neighbour, strength) ==
    LET c == rgb565_to_rgb888(pixel)
        n == rgb565_to_rgb888(neighbour)
        Sharp(v, sum) == v + ((strength * (v * 4 - sum)) \div 256)
        raw == <<Sharp(c[1], 4 * n[1]), Sharp(c[2], 4 * n[2]), Sharp(c[3], 4 * n[3])>>
    IN  KernelResult(raw, <<constrain(raw[1], 0, 255), constrain(raw[2], 0, 255),
                            constrain(raw[3], 0, 255)>>)

\* filter_brightness_contrast_hpc, one pixel: rC, gC, bC are int16_t.
filter_brightness_contrast_hpc(pixel, brightness, contrast) ==
    LET c == rgb565_unpack_fast(pixel)
        C(v) == (((v - 128) * contrast) \div 256) + 128 + brightness
        raw == <<C(c[1]), C(c[2]), C(c[3])>>
    IN  KernelResult(raw, <<Clamp255(S16(raw[1])), Clamp255(S16(raw[2])),
                            Clamp255(S16(raw[3]))>>)

\* filter_grain_hpc: noise = ((lfsr & 0xFF) - 128) * intensity / 256 in uint32_t
\* arithmetic, stored in an int8_t. The quotient of the wrapped product by 256
\* is the exact quotient modulo 2^24.
filter_grain_hpc_noise(low, intensity) ==
    S8((((low - 128) * intensity) \div 256) % 16777216)

\* filter_grain_hpc, one pixel, low = lfsr & 0xFF after the step.
filter_grain_hpc(pixel, intensity, low) ==
    LET c == rgb565_unpack_fast(pixel)
        noise == filter_grain_hpc_noise(low, intensity)
        raw == <<c[1] + noise, c[2] + noise, c[3] + noise>>
    IN  KernelResult(raw, <<Clamp255(raw[1]), Clamp255(raw[2]), Clamp255(raw[3])>>)

ClampKernels ==
    {"CoolFilter", "VibrantFilter", "BlurFilter", "SharpenFilter",
     "filter_brightness_contrast_hpc", "filter_grain_hpc"}

\* The pixels the kernels are applied to, and the pixels around them.
ClampPixels ==
    {r5 * 2048 + g6 * 32 + b5 :
        r5 \in {0, 1, 15, 16, 30, 31}, g6 \in {0, 1, 31, 32, 62, 63}, b5 \in {0, 16, 31}}
ClampNeighbours == {0, 33808, 65535}

\* The values of the first and second parameter of each kernel: the ends of the
\* parameter's type and the value the code constructs it with.
ClampParam1(kernel) ==
    CASE kernel = "CoolFilter" -> {0, 25, 255}
      [] kernel = "VibrantFilter" -> {0, 40, 255}
      [] kernel = "BlurFilter" -> {0}
      [] kernel = "SharpenFilter" -> {0, 30, 255}
      [] kernel = "filter_brightness_contrast_hpc" -> {-128, 0, 127}
      [] kernel = "filter_grain_hpc" -> {0, 30, 255}

ClampParam2(kernel) ==
    CASE kernel = "CoolFilter" -> {0, 20, 255}
      [] kernel = "VibrantFilter" -> {0, 15, 255}
      [] kernel = "BlurFilter" -> {0}
      [] kernel = "SharpenFilter" -> {0}
      [] kernel = "filter_brightness_contrast_hpc" -> {0, 256, 65535}
      [] kernel = "filter_grain_hpc" -> {0, 1, 127, 128, 255}

InitClamp ==
    /\ InitPipelineVars
    /\ InitDmaVars
    /\ InitStageVars
    /\ InitChainVars
    /\ InitAuxVars
    /\ InitPixelVars
    /\ InitVignetteVars
    /\ InitAccessVars
    /\ InitGrainVars
    /\ cl_kernel \in ClampKernels
    /\ cl_pixel \in ClampPixels
    /\ cl_neighbour \in (IF cl_kernel \in {"BlurFilter", "SharpenFilter"}
                         THEN ClampNeighbours ELSE {0})
    /\ cl_param1 \in ClampParam1(cl_kernel)
    /\ cl_param2 \in ClampParam2(cl_kernel)
    /\ cl_pc = "call"
    /\ cl_raw = <<>>
    /\ cl_wide = <<>>
    /\ cl_data = cl_pixel

\* CoolFilter::process on data[i], coolness = cl_param1, contrast = cl_param2.
clamp_CoolFilter ==
    /\ cl_pc = "call"
    /\ cl_kernel = "CoolFilter"
    /\ LET res == CoolFilter_process(cl_pixel, cl_param1, cl_param2)
       IN  cl_raw' = res.raw /\ cl_wide' = res.wide /\ cl_data' = res.data
    /\ cl_pc' = "done"
    /\ UNCHANGED <<pipelineVars, auxVars, stageVars, chainVars, grainVars, pixelVars,
                   vignetteVars, accessVars, cl_kernel, cl_pixel, cl_neighbour,
                   cl_param1, cl_param2>>

\* VibrantFilter::process on data[i], saturationBoost = cl_param1,
\* clarityBoost = cl_param2.
clamp_VibrantFilter ==
    /\ cl_pc = "call"
    /\ cl_kernel = "VibrantFilter"
    /\ LET res == VibrantFilter_process(cl_pixel, cl_param1, cl_param2)
       IN  cl_raw' = res.raw /\ cl_wide' = res.wide /\ cl_data' = res.data
    /\ cl_pc' = "done"
    /\ UNCHANGED <<pipelineVars, auxVars, stageVars, chainVars, grainVars, pixelVars,
                   vignetteVars, accessVars, cl_kernel, cl_pixel, cl_neighbour,
                   cl_param1, cl_param2>>

\* BlurFilter::process on data[y * width + x].
clamp_BlurFilter ==
    /\ cl_pc = "call"
    /\ cl_kernel = "BlurFilter"
    /\ LET res == BlurFilter_process(cl_pixel, cl_neighbour)
       IN  cl_raw' = res.raw /\ cl_wide' = res.wide /\ cl_data' = res.data
    /\ cl_pc' = "done"
    /\ UNCHANGED <<pipelineVars, auxVars, stageVars, chainVars, grainVars, pixelVars,
                   vignetteVars, accessVars, cl_kernel, cl_pixel, cl_neighbour,
                   cl_param1, cl_param2>>

\* SharpenFilter::process on data[idx], strength = cl_param1.
clamp_SharpenFilter ==
    /\ cl_pc = "call"
    /\ cl_kernel = "SharpenFilter"
    /\ LET res == SharpenFilter_process(cl_pixel, cl_neighbour, cl_param1)
       IN  cl_raw' = res.raw /\ cl_wide' = res.wide /\ cl_data' = res.data
    /\ cl_pc' = "done"
    /\ UNCHANGED <<pipelineVars, auxVars, stageVars, chainVars, grainVars, pixelVars,
                   vignetteVars, accessVars, cl_kernel, cl_pixel, cl_neighbour,
                   cl_param1, cl_param2>>

\* filter_brightness_contrast_hpc on data[i], brightness = cl_param1,
\* contrast_q8 = cl_param2.
clamp_filter_brightness_contrast_hpc ==
    /\ cl_pc = "call"
    /\ cl_kernel = "filter_brightness_contrast_hpc"
    /\ LET res == filter_brightness_contrast_hpc(cl_pixel, cl_param1, cl_param2)
       IN  cl_raw' = res.raw /\ cl_wide' = res.wide /\ cl_data' = res.data
    /\ cl_pc' = "done"
    /\ UNCHANGED <<pipelineVars, auxVars, stageVars, chainVars, grainVars, pixelVars,
                   vignetteVars, accessVars, cl_kernel, cl_pixel, cl_neighbour,
                   cl_param1, cl_param2>>

\* filter_grain_hpc on data[i], intensity = cl_param1, lfsr & 0xFF = cl_param2.
clamp_filter_grain_hpc ==
    /\ cl_pc = "call"
    /\ cl_kernel = "filter_grain_hpc"
    /\ LET res == filter_grain_hpc(cl_pixel, cl_param1, cl_param2)
       IN  cl_raw' = res.raw /\ cl_wide' = res.wide /\ cl_data' = res.data
    /\ cl_pc' = "done"
    /\ UNCHANGED <<pipelineVars, auxVars, stageVars, chainVars, grainVars, pixelVars,
                   vignetteVars, accessVars, cl_kernel, cl_pixel, cl_neighbour,
                   cl_param1, cl_param2>>

NextClamp ==
    \/ clamp_CoolFilter
    \/ clamp_VibrantFilter
    \/ clamp_BlurFilter
    \/ clamp_SharpenFilter
    \/ clamp_filter_brightness_contrast_hpc
    \/ clamp_filter_grain_hpc

SpecClamp == InitClamp /\ [][NextClamp]_vars

\* --------------------------------------------------------- grain generator
\* filter_grain_hpc called again and again: its static lfsr, kept as two 16-bit
\* halves <<lfsr >> 16, lfsr & 0xFFFF>>.

\* Faulty variant of lfsr_step: the feedback leaves out the tap at bit 0.
lfsr_step_no_tap0(reg) ==
    LET hi == reg[1]
        lo == reg[2]
        bit == (((lo \div 2) % 2) + ((hi \div 32) % 2) + (hi \div 32768)) % 2
    IN  <<hi \div 2 + bit * 32768, lo \div 2 + (hi % 2) * 32768>>

\* Faulty variant of lfsr_step: the tap at bit 22 instead of bit 21.
lfsr_step_tap22(reg) ==
    LET hi == reg[1]
        lo == reg[2]
        bit == ((lo % 2) + ((lo \div 2) % 2) + ((hi \div 64) % 2) + (hi \div 32768)) % 2
    IN  <<hi \div 2 + bit * 32768, lo \div 2 + (hi % 2) * 32768>>

\* bit = ((lfsr >> 0) ^ (lfsr >> 1) ^ (lfsr >> 21) ^ (lfsr >> 31)) & 1;
\* lfsr = (lfsr >> 1) | (bit << 31);
lfsr_step(reg) ==
    LET hi == reg[1]
        lo == reg[2]
        bit == ((lo % 2) + ((lo \div 2) % 2) + ((hi \div 32) % 2) + (hi \div 32768)) % 2
    IN  <<hi \div 2 + bit * 32768, lo \div 2 + (hi % 2) * 32768>>

\* p ? p->intensity : 30
GrainIntensities == {30, 255}

\* filter_grain_hpc(data, width, height, params) is entered.
filter_grain_hpc_call ==
    /\ gr_pc = "idle"
    /\ gr_calls < MaxGrainCalls
    /\ gr_calls' = gr_calls + 1
    /\ gr_total' \in 0 .. MaxGrainPixels
    /\ gr_intensity' \in GrainIntensities
    /\ gr_i' = 0
    /\ gr_pc' = "loop"
    /\ UNCHANGED <<pipelineVars, auxVars, stageVars, chainVars, pixelVars, vignetteVars,
                   accessVars, clampVars, gr_lfsr, gr_noise, gr_pixels>>

\* One pass of the loop: the register steps, the noise of data[i] is taken from
\* its low byte, i++.
filter_grain_hpc_pixel ==
    /\ gr_pc = "loop"
    /\ gr_i < gr_total
    /\ gr_lfsr' = lfsr_step(gr_lfsr)
    /\ gr_noise' = filter_grain_hpc_noise(lfsr_step(gr_lfsr)[2] % 256, gr_intensity)
    /\ gr_i' = gr_i + 1
    /\ gr_pixels' = gr_pixels + 1
    /\ UNCHANGED <<pipelineVars, auxVars, stageVars, chainVars, pixelVars, vignetteVars,
                   accessVars, clampVars, gr_pc, gr_total, gr_intensity, gr_calls>>

\* The loop ends, filter_grain_hpc returns.
filter_grain_hpc_return ==
    /\ gr_pc = "loop"
    /\ ~(gr_i < gr_total)
    /\ gr_pc' = "idle"
    /\ UNCHANGED <<pipelineVars, auxVars, stageVars, chainVars, pixelVars, vignetteVars,
                   accessVars, clampVars, gr_lfsr, gr_total, gr_i, gr_intensity,
                   gr_noise, gr_calls, gr_pixels>>

InitGrain ==
    /\ InitPipelineVars
    /\ InitDmaVars
    /\ InitStageVars
    /\ InitChainVars
    /\ InitAuxVars
    /\ InitKernelVars

NextGrain ==
    \/ filter_grain_hpc_call
    \/ filter_grain_hpc_pixel
    \/ filter_grain_hpc_return

SpecGrain == InitGrain /\ [][NextGrain]_vars

\* The grain generator started from any register: the seed, every register with
\* a single bit set, and the registers 0x00000003 and 0xFFFFFFFF.
LfsrSamples ==
    {LfsrSeed, <<0, 3>>, <<65535, 65535>>}
        \cup {<<0, 2 ^ k>> : k \in 0 .. 15}
        \cup {<<2 ^ k, 0>> : k \in 0 .. 15}

InitLfsr ==
    /\ InitPipelineVars
    /\ InitDmaVars
    /\ InitStageVars
    /\ InitChainVars
    /\ InitAuxVars
    /\ InitPixelVars
    /\ InitVignetteVars
    /\ InitAccessVars
    /\ InitClampVars
    /\ gr_lfsr \in LfsrSamples
    /\ gr_pc = "idle"
    /\ gr_total = 0
    /\ gr_i = 0
    /\ gr_intensity = 0
    /\ gr_noise = 0
    /\ gr_calls = 0
    /\ gr_pixels = 0

SpecLfsr == InitLfsr /\ [][NextGrain]_vars

\* ----------------------------------------------------------- edge detection
\* EdgeDetectFilter::process row by row. A pixel of data is known by what it
\* holds: its own index while it is the original pixel, -1 once it holds edge
\* output. A line buffer entry is known by the pixel its luminance was taken from.

\* Faulty variant of EdgeDetectFilter_nextRow: the row is loaded over the line
\* that the next step still needs.
EdgeDetectFilter_nextRow_over(row) == (row + 1) % 3

\* int nextRow = (y + 2) % 3, for y = row
EdgeDetectFilter_nextRow(row) == (row + 2) % 3

\* lineBuffer[k][x] = luminance(data[row * width + x]) for every x < width
EdgeDetectFilter_loadLine(lineBuffer, k, data, width, row) ==
    [lineBuffer EXCEPT ![k] = [col \in 1 .. width |-> data[row * width + col]]]

\* The rows loaded before the main loop: row < 3 && row < height.
RECURSIVE EdgeDetectFilter_fill(_, _, _, _, _)
EdgeDetectFilter_fill(lineBuffer, data, width, height, row) ==
    IF row < 3 /\ row < height
    THEN EdgeDetectFilter_fill(EdgeDetectFilter_loadLine(lineBuffer, row, data, width, row),
                               data, width, height, row + 1)
    ELSE lineBuffer

EdgeWidths == (1 .. MaxEdgeDim) \cup {LineBufferWidth + 1}

InitEdge ==
    /\ InitPipelineVars
    /\ InitDmaVars
    /\ InitStageVars
    /\ InitChainVars
    /\ InitKernelVars
    /\ \E width \in EdgeWidths, height \in 1 .. MaxEdgeDim :
         aux = [IdleAux EXCEPT
                   !.edge = [pc |-> "call", width |-> width, height |-> height, y |-> 0,
                             data |-> [i \in 1 .. width * height |-> i],
                             lineBuffer |-> [k \in 0 .. 2 |-> <<>>]]]

\* `if (width > 320) return;`
EdgeDetectFilter_tooWide ==
    /\ ed_pc = "call"
    /\ ed_width > LineBufferWidth
    /\ aux' = [aux EXCEPT !.edge.pc = "done"]
    /\ UNCHANGED <<pipelineVars, stageVars, chainVars, kernelVars>>

\* The initial line buffers are filled; y = 1.
EdgeDetectFilter_entry ==
    /\ ed_pc = "call"
    /\ ~(ed_width > LineBufferWidth)
    /\ aux' = [aux EXCEPT
                  !.edge.lineBuffer = EdgeDetectFilter_fill(ed_lineBuffer, ed_data,
                                                            ed_width, ed_height, 0),
                  !.edge.y = 1,
                  !.edge.pc = "row"]
    /\ UNCHANGED <<pipelineVars, stageVars, chainVars, kernelVars>>

\* The loop over x of row y: data[y * width + x] = edge for 1 <= x < width - 1.
EdgeDetectFilter_row ==
    /\ ed_pc = "row"
    /\ ed_y < ed_height - 1
    /\ aux' = [aux EXCEPT
                  !.edge.data = [i \in DOMAIN ed_data |->
                                    IF \E col \in 1 .. ed_width - 2 :
                                          i = ed_y * ed_width + col + 1
                                    THEN -1 ELSE ed_data[i]],
                  !.edge.pc = "load"]
    /\ UNCHANGED <<pipelineVars, stageVars, chainVars, kernelVars>>

\* `if (y + 2 < height)` row y + 2 is loaded into lineBuffer[(y + 2) % 3]; y++.
EdgeDetectFilter_load ==
    /\ ed_pc = "load"
    /\ aux' = [aux EXCEPT
                  !.edge.lineBuffer =
                      IF ed_y + 2 < ed_height
                      THEN EdgeDetectFilter_loadLine(ed_lineBuffer,
                                                     EdgeDetectFilter_nextRow(ed_y),
                                                     ed_data, ed_width, ed_y + 2)
                      ELSE ed_lineBuffer,
                  !.edge.y = ed_y + 1,
                  !.edge.pc = "row"]
    /\ UNCHANGED <<pipelineVars, stageVars, chainVars, kernelVars>>

\* The loop over y ends.
EdgeDetectFilter_return ==
    /\ ed_pc = "row"
    /\ ~(ed_y < ed_height - 1)
    /\ aux' = [aux EXCEPT !.edge.pc = "done"]
    /\ UNCHANGED <<pipelineVars, stageVars, chainVars, kernelVars>>

NextEdge ==
    \/ EdgeDetectFilter_tooWide
    \/ EdgeDetectFilter_entry
    \/ EdgeDetectFilter_row
    \/ EdgeDetectFilter_load
    \/ EdgeDetectFilter_return

SpecEdge == InitEdge /\ [][NextEdge]_vars

\* ---------------------------------------------------------- source sampling
\* The source coordinates pipeline_process_frame() and
\* process_scanline_with_downscale() compute for a frame of any size: the
\* sizes are drawn from SourceWidths x SourceHeights. Every intermediate value
\* of these sizes stays below 2^31, so the int and uint32_t arithmetic of the
\* code does not wrap.

SourceWidths == (1 .. MaxSourceDim) \cup {159, 160, 161, 320, 1600}
SourceHeights == (1 .. MaxSourceDim) \cup {120, 127, 128, 129, 1200}

\* Faulty variant of pipeline_process_frame_src_y: rounds to the nearest line,
\* without the clamp.
pipeline_process_frame_src_y_rounded(height, row) ==
    (row * ((height * 256) \div DISPLAY_HEIGHT) + 128) \div 256

\* pipeline_process_frame(), lines 362 and 374-375: src_y of the scanline `row`.
pipeline_process_frame_src_y(height, row) ==
    IF (row * ((height * 256) \div DISPLAY_HEIGHT)) \div 256 >= height
      THEN height - 1
      ELSE (row * ((height * 256) \div DISPLAY_HEIGHT)) \div 256

InitSample ==
    /\ InitPipelineVars
    /\ InitDmaVars
    /\ InitStageVars
    /\ InitChainVars
    /\ InitKernelVars
    /\ \E width \in SourceWidths, height \in SourceHeights :
         aux = [IdleAux EXCEPT
                   !.sample = [pc |-> "line", width |-> width, height |-> height,
                               y |-> 0, src_y |-> 0, src_x |-> <<>>]]

\* pipeline_process_frame(), lines 372-377: src_y and the source line of y.
pipeline_process_frame_source_line ==
    /\ sm_pc = "line"
    /\ sm_y < DISPLAY_HEIGHT
    /\ aux' = [aux EXCEPT
                  !.sample.src_y = pipeline_process_frame_src_y(sm_height, sm_y),
                  !.sample.pc = "downscale"]
    /\ UNCHANGED <<pipelineVars, stageVars, chainVars, kernelVars>>

\* process_scanline_with_downscale(src_line, src_width, sram_buffer,
\* DISPLAY_WIDTH, filter), lines 265-273: src_x of every x; then y++.
pipeline_process_frame_source_columns ==
    /\ sm_pc = "downscale"
    /\ aux' = [aux EXCEPT
                  !.sample.src_x =
                      [col \in 0 .. DISPLAY_WIDTH - 1 |->
                          StageSrcX(col, StageScale(sm_width, DISPLAY_WIDTH))],
                  !.sample.y = sm_y + 1,
                  !.sample.pc = "line"]
    /\ UNCHANGED <<pipelineVars, stageVars, chainVars, kernelVars>>

\* pipeline_process_frame(), line 372: the loop over y ends.
pipeline_process_frame_source_done ==
    /\ sm_pc = "line"
    /\ ~(sm_y < DISPLAY_HEIGHT)
    /\ aux' = [aux EXCEPT !.sample.pc = "done"]
    /\ UNCHANGED <<pipelineVars, stageVars, chainVars, kernelVars>>

NextSample ==
    \/ pipeline_process_frame_source_line
    \/ pipeline_process_frame_source_columns
    \/ pipeline_process_frame_source_done

SpecSample == InitSample /\ [][NextSample]_vars

\* ------------------------------------------------------------ camera driver
\* CameraDriver::captureFrame and CameraDriver::releaseFrame (Camera.hpp), called
\* in any order. A sensor buffer is with the driver's caller from the
\* esp_camera_fb_get that gave it to the esp_camera_fb_return that takes it.

SensorBuffers == 1 .. FRAME_BUFFER_COUNT

\* The buffers esp_camera_fb_get can give: those the sensor has.
SensorHas == {b \in SensorBuffers : cd_gets[b] <= cd_returns[b]}

InitDriver ==
    /\ InitPipelineVars
    /\ InitDmaVars
    /\ InitStageVars
    /\ InitChainVars
    /\ InitKernelVars
    /\ \E initialized \in BOOLEAN :
         aux = [IdleAux EXCEPT !.driver.initialized = initialized]

\* captureFrame(), lines 153-156: the empty frame is what an uninitialized
\* driver returns.
captureFrame_entry ==
    /\ cd_pc = "idle"
    /\ cd_calls < MaxDriverCalls
    /\ aux' = [aux EXCEPT
                  !.driver.calls = cd_calls + 1,
                  !.driver.lastCall = "captureFrame",
                  !.driver.frame = 0,
                  !.driver.pc = IF ~cd_initialized THEN "idle" ELSE "return_previous"]
    /\ UNCHANGED <<pipelineVars, stageVars, chainVars, kernelVars>>

\* captureFrame(), lines 159-161: the frame still held goes back to the sensor.
captureFrame_return_previous ==
    /\ cd_pc = "return_previous"
    /\ aux' = [aux EXCEPT
                  !.driver.returns = IF cd_currentFrame # 0
                                       THEN [cd_returns EXCEPT ![cd_currentFrame] = @ + 1]
                                       ELSE cd_returns,
                  !.driver.pc = "fb_get"]
    /\ UNCHANGED <<pipelineVars, stageVars, chainVars, kernelVars>>

\* captureFrame(), lines 163-175: _currentFrame = esp_camera_fb_get(), which is
\* a buffer the sensor has or nullptr; the CamFrame points into it.
captureFrame_fb_get ==
    /\ cd_pc = "fb_get"
    /\ \E fb \in {0} \cup SensorHas :
         aux' = [aux EXCEPT
                    !.driver.currentFrame = fb,
                    !.driver.frame = fb,
                    !.driver.gets = IF fb # 0 THEN [cd_gets EXCEPT ![fb] = @ + 1]
                                              ELSE cd_gets,
                    !.driver.pc = "idle"]
    /\ UNCHANGED <<pipelineVars, stageVars, chainVars, kernelVars>>

\* Faulty variant of releaseFrame: _currentFrame is not reset.
releaseFrame_keep ==
    /\ cd_pc = "idle"
    /\ cd_calls < MaxDriverCalls
    /\ aux' = [aux EXCEPT
                  !.driver.calls = cd_calls + 1,
                  !.driver.lastCall = "releaseFrame",
                  !.driver.returns = IF cd_currentFrame # 0
                                       THEN [cd_returns EXCEPT ![cd_currentFrame] = @ + 1]
                                       ELSE cd_returns]
    /\ UNCHANGED <<pipelineVars, stageVars, chainVars, kernelVars>>

\* releaseFrame(), lines 181-186.
releaseFrame ==
    /\ cd_pc = "idle"
    /\ cd_calls < MaxDriverCalls
    /\ aux' = [aux EXCEPT
                  !.driver.calls = cd_calls + 1,
                  !.driver.lastCall = "releaseFrame",
                  !.driver.returns = IF cd_currentFrame # 0
                                       THEN [cd_returns EXCEPT ![cd_currentFrame] = @ + 1]
                                       ELSE cd_returns,
                  !.driver.currentFrame = IF cd_currentFrame # 0 THEN 0
                                                                 ELSE cd_currentFrame]
    /\ UNCHANGED <<pipelineVars, stageVars, chainVars, kernelVars>>

NextDriver ==
    \/ captureFrame_entry
    \/ captureFrame_return_previous
    \/ captureFrame_fb_get
    \/ releaseFrame

SpecDriver == InitDriver /\ [][NextDriver]_vars

\* ----------------------------------------------------- main loop, watchdog
\* loop() of main.cpp with handleMenuInput() of Menu.hpp, and the task watchdog
\* that safety_init_watchdog() arms in setup(). Time passes in seconds; a step of
\* the program takes at most MaxStepSec of them.

Directions == {"DIR_NONE", "DIR_UP", "DIR_DOWN"}

\* moveSelection(delta): selectedGame = (selectedGame + delta + gameCount) % gameCount
moveSelection(delta) == (selectedGame + delta + gameCount) % gameCount

InitWatchdog ==
    /\ InitPipelineVars
    /\ InitDmaVars
    /\ InitStageVars
    /\ InitChainVars
    /\ InitKernelVars
    /\ \E count \in 0 .. MaxGames :
         aux = [IdleAux EXCEPT
                   !.watchdog = [pc |-> "loop", sinceFeed |-> 0, elapsed |-> 0,
                                 gameCount |-> count, selectedGame |-> 0]]

\* loop(), line 187: safety_tick() feeds the watchdog (esp_task_wdt_reset).
safety_tick ==
    /\ wd_pc = "loop"
    /\ aux' = [aux EXCEPT
                  !.watchdog.sinceFeed = 0,
                  !.watchdog.elapsed = 0,
                  !.watchdog.pc = "menu"]
    /\ UNCHANGED <<pipelineVars, stageVars, chainVars, kernelVars>>

\* handleMenuInput(), lines 111-119: without modes it returns; else the joystick
\* moves the selection.
handleMenuInput_entry ==
    /\ wd_pc = "menu"
    /\ IF gameCount = 0
         THEN aux' = [aux EXCEPT !.watchdog.pc = "loop", !.watchdog.elapsed = 0]
         ELSE \E dir \in Directions :
                aux' = [aux EXCEPT
                           !.watchdog.selectedGame =
                               CASE dir = "DIR_UP" -> moveSelection(-1)
                                 [] dir = "DIR_DOWN" -> moveSelection(1)
                                 [] OTHER -> selectedGame,
                           !.watchdog.pc = "select",
                           !.watchdog.elapsed = 0]
    /\ UNCHANGED <<pipelineVars, stageVars, chainVars, kernelVars>>

\* handleMenuInput(), lines 121-123 and 135: a press starts the selected mode,
\* else the function returns after delay(80).
handleMenuInput_select ==
    /\ wd_pc = "select"
    /\ \E pressed \in BOOLEAN :
         aux' = [aux EXCEPT
                    !.watchdog.pc = IF pressed THEN "mode" ELSE "loop",
                    !.watchdog.elapsed = 0]
    /\ UNCHANGED <<pipelineVars, stageVars, chainVars, kernelVars>>

\* handleMenuInput(), lines 125-132 and 135: one iteration of while (true): the
\* loop function of the mode returns; backPressed() ends the loop.
handleMenuInput_mode_loop ==
    /\ wd_pc = "mode"
    /\ \E back \in BOOLEAN :
         aux' = [aux EXCEPT
                    !.watchdog.pc = IF back THEN "loop" ELSE "mode",
                    !.watchdog.elapsed = 0]
    /\ UNCHANGED <<pipelineVars, stageVars, chainVars, kernelVars>>

\* A second passes while the program is in its current step.
second_passes ==
    /\ wd_pc # "reset"
    /\ wd_elapsed < MaxStepSec
    /\ wd_sinceFeed < WATCHDOG_TIMEOUT_SEC
    /\ aux' = [aux EXCEPT
                  !.watchdog.elapsed = wd_elapsed + 1,
                  !.watchdog.sinceFeed = wd_sinceFeed + 1]
    /\ UNCHANGED <<pipelineVars, stageVars, chainVars, kernelVars>>

\* esp_task_wdt_init(WATCHDOG_TIMEOUT_SEC, true): the task was not reset for
\* WATCHDOG_TIMEOUT_SEC seconds, the watchdog panics and the device restarts.
esp_task_wdt_timeout ==
    /\ wd_pc # "reset"
    /\ wd_sinceFeed = WATCHDOG_TIMEOUT_SEC
    /\ aux' = [aux EXCEPT !.watchdog.pc = "reset"]
    /\ UNCHANGED <<pipelineVars, stageVars, chainVars, kernelVars>>

NextWatchdog ==
    \/ safety_tick
    \/ handleMenuInput_entry
    \/ handleMenuInput_select
    \/ handleMenuInput_mode_loop
    \/ second_passes
    \/ esp_task_wdt_timeout

SpecWatchdog == InitWatchdog /\ [][NextWatchdog]_vars

\* ================================================================ claims

\* The scanline loop of pipeline_process_frame is running.
InScanlineLoop == pc \in {"line_begin", "line_downscale", "line_transmit", "line_polling"}

\* The buffers in the fill role (the CPU writes its scanlines there) and in the
\* drain role (the transport reads it).
FillRole == {b \in Buffers : InScanlineLoop /\ b = sram_buffer}
DrainRole == {b \in Buffers : b = drainBuf}

\* C1: during pipeline_process_frame exactly one scanline buffer is in the fill
\* role, at most one is in the drain role, and no buffer is in both roles.
\* (The statement of the claim; the code transmits the buffer it fills.)
C1_FillAndDrainDistinct ==
    InScanlineLoop =>
        /\ Cardinality(FillRole) = 1
        /\ Cardinality(DrainRole) <= 1
        /\ FillRole \cap DrainRole = {}

\* C2: the scanline stage never writes a buffer whose transfer has not completed,
\* and a buffer is being transferred only after the downscale and the filter of
\* the current scanline y, 0 <= y < DISPLAY_HEIGHT, have finished writing it.
C2_FillAndTransferOrdered ==
    /\ \A b \in Buffers : bufState[b] = "writing" => drainBuf # b
    /\ drainBuf # NoBuf =>
          /\ pc = "line_polling"
          /\ bufState[drainBuf] = "ready"
          /\ bufLine[drainBuf] = y
          /\ y \in 0 .. (DISPLAY_HEIGHT - 1)

\* C2 witness: the last scanline of a frame is being written into the buffer
\* whose transfer for the scanline before it was issued.
C2_Witness ==
    /\ pc = "line_downscale"
    /\ y = DISPLAY_HEIGHT - 1
    /\ bufState[sram_buffer] = "writing"
    /\ prevScanBuf = sram_buffer

\* C3: the buffer filled and handed to the transport for scanline y+1 is the
\* other buffer than the one used for scanline y.
\* (The statement of the claim; the code uses one buffer for every scanline.)
C3_RolesSwapEveryScanline ==
    (pc \in {"line_downscale", "line_transmit", "line_polling"} /\ y >= 1) =>
        sram_buffer # prevScanBuf

\* C4: a frame captured by pipeline_process_camera_frame is released exactly once
\* before the call returns, also when pipeline_process_frame leaves early, and
\* never more than one captured frame is held.
C4_FrameReleasedOnce ==
    /\ fbHeld <= 1
    /\ callReleases <= 1
    /\ (pc = "cam_return" /\ callCaptured) => (callReleases = 1 /\ fbHeld = 0)
    /\ pc = "idle" => fbHeld = 0

\* C4 witness: the call captured a frame, the pipeline was not initialized, and
\* the call is about to return.
C4_Witness ==
    /\ pc = "cam_return"
    /\ callCaptured
    /\ ~g_pipelineInitialized
    /\ callReleases = 1

\* C5: when the capture returns null, pipeline_process_camera_frame changes no
\* counter, issues no display transfer and does not release a frame.
C5_NullCaptureNoEffect ==
    (pc = "cam_return" /\ ~callCaptured) =>
        /\ g_framesProcessed = entryFrames
        /\ g_dmaCompletions = entryDma
        /\ callWindowTx = 0
        /\ callScanTx = 0
        /\ callReleases = 0

\* C5 witness: a null capture on an initialized pipeline that has processed a frame.
C5_Witness ==
    /\ pc = "cam_return"
    /\ ~callCaptured
    /\ g_pipelineInitialized
    /\ g_framesProcessed > 0

\* A transfer has been handed to the transport and has not finished.
TransferInFlight == transQueued > 0 \/ hwTrans # NoBuf

\* C6: a call blocked in the driver (the completion wait, or the enqueue) returns
\* although the transport does not complete the transfer.
\* (The statement of the claim; the code waits with portMAX_DELAY.)
C6_WaitIsBounded == (dmaPc # "idle" /\ TransferInFlight) ~> (dmaPc = "idle")

\* C7: pipeline_deinit never has the scanline buffers freed while the display
\* device is still registered.
\* (The statement of the claim; the code frees the buffers first.)
C7_TransportReleasedBeforeBuffers ==
    op = "pipeline_deinit" => ~(bufAllocated = {} /\ g_spiDisplayHandle)

\* C8: when init_display_spi_dma has failed, the SPI bus is not initialized and
\* no device handle is registered.
\* (The statement of the claim; a failed spi_bus_add_device leaves the bus.)
C8_FailedTransportInitIsClean ==
    (pc = "init_transport_failed" \/ (pc = "init_return" /\ ~initResult)) =>
        (~busInitialized /\ ~g_spiDisplayHandle)

\* C9: a pipeline_init that returns false leaves the pipeline uninitialized and
\* no scanline buffer allocated, whether an allocation or the transport failed.
C9_FailedInitLeavesNothing ==
    (pc = "init_return" /\ ~initResult) =>
        (~g_pipelineInitialized /\ bufAllocated = {})

\* C9 witness: the transport failed after both buffers had been allocated.
C9_Witness ==
    /\ pc = "init_return"
    /\ ~initResult
    /\ initFailedAt = "device"

\* C10: pipeline_init on an initialized pipeline returns true in one step that
\* allocates nothing, touches neither bus nor device and changes no pipeline state.
C10_InitIdempotent ==
    [][(pc = "idle" /\ g_pipelineInitialized /\ op' = "pipeline_init") =>
          /\ pc' = "init_return"
          /\ initResult' = TRUE
          /\ UNCHANGED <<lifeVars, statVars, frameVars, camVars>>]_vars

\* C10 witness: pipeline_init was called on an initialized pipeline that had
\* processed a frame, and returns true.
C10_Witness ==
    /\ pc = "init_return"
    /\ initEntry
    /\ initResult
    /\ g_framesProcessed > 0

\* C11: when a scanline transfer of pipeline_process_frame has failed, the frame
\* is not counted, the pipeline is left unavailable and no further scanline is sent.
\* (The statement of the claim; the code ignores the transfer's result.)
C11_TransferFailureDegrades ==
    (pc = "frame_return" /\ callTxFailed) =>
        /\ g_framesProcessed = entryFrames
        /\ ~g_pipelineInitialized
        /\ ~callTxAfterFail

\* C12: every command byte is sent with DC low, every data byte and every pixel
\* scanline with DC high; the level is on the pin when the bytes go out.
C12_DcMatchesTransfer ==
    /\ lastTx.kind = "cmd" => lastTx.dc = 0
    /\ lastTx.kind \in {"data", "pixels"} => lastTx.dc = 1

\* C12 witness: the row address command of a second frame has been sent, after
\* the pixel transfers of the frame before it.
C12_Witness ==
    /\ pc = "frame_window"
    /\ w = 6
    /\ lastTx.kind = "cmd"
    /\ g_framesProcessed >= 1

\* C13: once a scanline transfer of a frame is issued, the control transfers of
\* that frame are exactly 0x2A + 4 data bytes, 0x2B + 4 data bytes, 0x2C: the
\* window sequence is complete before the first scanline and nothing in command
\* mode follows it.
C13_WindowBeforeScanlines ==
    callScanTx >= 1 =>
        /\ Len(callWindowLog) = 11
        /\ callWindowLog[1] = [kind |-> "cmd", byte |-> 42]
        /\ \A i \in 2 .. 5 : callWindowLog[i].kind = "data"
        /\ callWindowLog[6] = [kind |-> "cmd", byte |-> 43]
        /\ \A i \in 7 .. 10 : callWindowLog[i].kind = "data"
        /\ callWindowLog[11] = [kind |-> "cmd", byte |-> 44]

\* C13 witness: the last scanline of a frame has been issued.
C13_Witness ==
    /\ pc = "line_polling"
    /\ y = DISPLAY_HEIGHT - 1
    /\ callScanTx = DISPLAY_HEIGHT

\* C14: a pipeline_process_frame on an initialized pipeline with a frame issues
\* exactly DISPLAY_HEIGHT scanline transfers of DISPLAY_WIDTH * 16 bits each,
\* whatever the frame size and the filter.
C14_FixedTransferCount ==
    /\ callScanTx <= DISPLAY_HEIGHT
    /\ (pc \in {"frame_count", "frame_return"} /\ g_pipelineInitialized /\ frameArg) =>
          /\ callScanTx = DISPLAY_HEIGHT
          /\ callScanBits = {DISPLAY_WIDTH * 16}

\* C14 witness: a 160x120 frame, smaller than the display, has been processed
\* with the grayscale filter.
C14_Witness ==
    /\ pc = "frame_return"
    /\ callScanTx = DISPLAY_HEIGHT
    /\ src_width = 160
    /\ src_height = 120
    /\ filter = "FILTER_GRAYSCALE"

\* C15: the scanline stage writes no pixel past the end of the destination
\* buffer, also when the caller's dst_width exceeds the buffer's capacity.
\* (The statement of the claim; the code writes dst_width pixels unchecked.)
C15_OversizedWidthRejected ==
    st_fn = "process_scanline_with_downscale" =>
        \A x \in 1 .. Len(st_samples) : x - 1 < ScanlineCapacity

\* C25: when the source width is k times the destination width, both
\* downscalers copy src[k * x] to dst[x]: equal widths copy the row as it is, and
\* 320 -> 160 reads the source indices 0, 2, 4, ..., 318.
C25_IntegerRatioSamplesEveryKth ==
    /\ \A k \in 1 .. st_src_width :
          st_src_width = k * st_dst_width =>
              \A i \in 1 .. Len(st_samples) : st_samples[i] = k * (i - 1)
    /\ (st_pc = "done" /\ st_src_width = 2 * DISPLAY_WIDTH /\ st_dst_width = DISPLAY_WIDTH)
          => st_samples = [i \in 1 .. DISPLAY_WIDTH |-> 2 * (i - 1)]
    /\ (st_pc = "done" /\ st_src_width = st_dst_width)
          => st_samples = [i \in 1 .. st_dst_width |-> i - 1]

C25_Witness ==
    /\ st_pc = "done"
    /\ st_fn = "downscaleFrame"
    /\ st_src_width = 2 * DISPLAY_WIDTH
    /\ st_dst_width = DISPLAY_WIDTH
    /\ Len(st_samples) = DISPLAY_WIDTH
    /\ st_samples[DISPLAY_WIDTH] = 2 * DISPLAY_WIDTH - 2

\* ------------------------------------------------------------ filter chains

\* The slots in use, and those among them whose filter process() runs.
FcUsed == {i \in FilterSlots : i < fc_count}
HpcUsed == {i \in HPCSlots : i < hpc_count}
FcEnabledSlots == {i \in FcUsed : fc_filters[i] # NullFilter /\ enabled[fc_filters[i]]}
HpcEnabledSlots == {i \in HpcUsed : hpc_filters[i].enabled}

\* C16: the length of either chain stays within [0, capacity], and addFilter on a
\* full chain returns false and changes neither the count nor any slot.
C16_ChainLengthBounded ==
    /\ [](/\ fc_count \in 0 .. MAX_FILTERS
          /\ hpc_count \in 0 .. MAX_FILTERS_HPC)
    /\ [][(lastCall'.op = "addFilter" /\ fc_count = MAX_FILTERS) =>
              /\ lastCall'.fc = FALSE
              /\ UNCHANGED <<fc_filters, fc_count, enabled>>]_vars
    /\ [][(lastCall'.op = "addFilter" /\ hpc_count = MAX_FILTERS_HPC) =>
              /\ lastCall'.hpc = FALSE
              /\ UNCHANGED <<hpc_filters, hpc_count>>]_vars

\* addFilter was refused by both chains, which are full.
C16_Witness ==
    /\ lastCall.op = "addFilter"
    /\ lastCall.fc = FALSE
    /\ lastCall.hpc = FALSE
    /\ fc_count = MAX_FILTERS
    /\ hpc_count = MAX_FILTERS_HPC

\* C17: process applies no kernel when every filter of the chain is disabled; a
\* filter that is disabled is skipped, the others run in the same order, the slots
\* stay as they are, and enabling it again gives the execution order back.
C17_DisabledFiltersSkipped ==
    /\ (lastCall.op = "process" /\ FcEnabledSlots = {}) => fc_data = <<>>
    /\ (lastCall.op = "process" /\ HpcEnabledSlots = {}) => hpc_data = <<>>
    /\ \A i \in FcUsed :
          LET off == FilterChain_setEnabled(fc_filters, fc_count, enabled, i, FALSE)
              on == FilterChain_setEnabled(fc_filters, fc_count, off, i, TRUE)
              kept(g) == g # fc_filters[i]
          IN  /\ FilterChain_process(fc_filters, fc_count, off)
                    = SelectSeq(FilterChain_process(fc_filters, fc_count, on), kept)
              /\ enabled[fc_filters[i]] =>
                    FilterChain_process(fc_filters, fc_count, on)
                        = FilterChain_process(fc_filters, fc_count, enabled)
    /\ \A i \in HpcUsed :
          LET off == FilterChainHPC_setEnabled(hpc_filters, hpc_count, i, FALSE)
              on == FilterChainHPC_setEnabled(off, hpc_count, i, TRUE)
              before == FilterChainHPC_processFrom(on, i, 0)
              after == FilterChainHPC_processFrom(on, hpc_count, i + 1)
          IN  /\ \A j \in HPCSlots : j # i => off[j] = hpc_filters[j]
              /\ [off[i] EXCEPT !.enabled = TRUE] = [hpc_filters[i] EXCEPT !.enabled = TRUE]
              /\ FilterChainHPC_process(off, hpc_count) = before \o after
              /\ FilterChainHPC_process(on, hpc_count)
                    = before \o <<HPCKernelCall(hpc_filters[i])>> \o after
              /\ hpc_filters[i].enabled =>
                    FilterChainHPC_process(on, hpc_count)
                        = FilterChainHPC_process(hpc_filters, hpc_count)

\* process ran on chains of two and more filters that are all disabled.
C17_Witness ==
    /\ lastCall.op = "process"
    /\ fc_count >= 2
    /\ hpc_count >= 2
    /\ FcEnabledSlots = {}
    /\ HpcEnabledSlots = {}

\* The position in the log of process() of the kernel of enabled slot i.
SlotRank(slots, i) == Cardinality({k \in slots : k <= i})

\* C18: the slots hold the filters in the order of the addFilter calls since the
\* last clear, and process applies the filter of every enabled slot exactly once,
\* in ascending slot order.
C18_EnabledFiltersInInsertionOrder ==
    /\ fc_count = Len(addedSinceClear)
    /\ hpc_count = Len(addedSinceClear)
    /\ \A i \in FcUsed : fc_filters[i] = addedSinceClear[i + 1]
    /\ \A i \in HpcUsed :
          /\ hpc_filters[i].name = FilterName(addedSinceClear[i + 1])
          /\ hpc_filters[i].func = FilterFunc(addedSinceClear[i + 1])
          /\ hpc_filters[i].params = FilterParams(addedSinceClear[i + 1])
    /\ lastCall.op = "process" =>
          /\ Len(fc_data) = Cardinality(FcEnabledSlots)
          /\ \A i \in FcEnabledSlots :
                fc_data[SlotRank(FcEnabledSlots, i)] = fc_filters[i]
          /\ Len(hpc_data) = Cardinality(HpcEnabledSlots)
          /\ \A i \in HpcEnabledSlots :
                hpc_data[SlotRank(HpcEnabledSlots, i)] = HPCKernelCall(hpc_filters[i])

\* process applied different kernels, in both chains, past a disabled slot.
C18_Witness ==
    /\ lastCall.op = "process"
    /\ Len(fc_data) >= 2
    /\ fc_data[1] # fc_data[Len(fc_data)]
    /\ Len(hpc_data) >= 2
    /\ hpc_data[1] # hpc_data[Len(hpc_data)]
    /\ \E i \in HpcUsed : ~hpc_filters[i].enabled /\ i < hpc_count - 1

\* The slots in use whose filter is called name.
FcMatches(name) == {i \in FcUsed : FilterName(fc_filters[i]) = name}
HpcMatches(name) == {i \in HpcUsed : hpc_filters[i].name = name}
FirstOf(slots) == CHOOSE i \in slots : \A k \in slots : i <= k

\* C19: toggle(name) returns true exactly when a filter of the chain has that
\* name; it then flips the enabled flag of the lowest such slot and no other
\* flag, otherwise it changes no flag; toggling the same name twice gives the
\* flags back.
C19_ToggleFlipsFirstMatch ==
    /\ lastCall.op = "toggle" =>
          /\ lastCall.fc = (FcMatches(lastCall.arg) # {})
          /\ lastCall.hpc = (HpcMatches(lastCall.arg) # {})
    /\ \A name \in ToggleNames :
          LET r == FilterChain_toggle(fc_filters, fc_count, enabled, name)
              m == FcMatches(name)
          IN  /\ r.ret = (m # {})
              /\ m = {} => r.enabled = enabled
              /\ m # {} =>
                    \A f \in FilterInstances :
                        r.enabled[f] = IF f = fc_filters[FirstOf(m)] THEN ~enabled[f]
                                                                      ELSE enabled[f]
              /\ FilterChain_toggle(fc_filters, fc_count, r.enabled, name).enabled
                    = enabled
    /\ \A name \in ToggleNames :
          LET r == FilterChainHPC_toggle(hpc_filters, hpc_count, name)
              m == HpcMatches(name)
          IN  /\ r.ret = (m # {})
              /\ m = {} => r.filters = hpc_filters
              /\ m # {} =>
                    \A i \in HPCSlots :
                        r.filters[i] = IF i = FirstOf(m)
                                       THEN [hpc_filters[i] EXCEPT
                                                !.enabled = ~hpc_filters[i].enabled]
                                       ELSE hpc_filters[i]
              /\ FilterChainHPC_toggle(r.filters, hpc_count, name).filters = hpc_filters

\* toggle found its name in two slots; the first one is now disabled, the second
\* one still enabled.
C19_Witness ==
    /\ lastCall.op = "toggle"
    /\ lastCall.fc = TRUE
    /\ lastCall.hpc = TRUE
    /\ \E i, j \in HpcMatches(lastCall.arg) :
          /\ i = FirstOf(HpcMatches(lastCall.arg))
          /\ i < j
          /\ ~hpc_filters[i].enabled
          /\ hpc_filters[j].enabled

\* C20: clear() sets the length of the chain to 0, a process that follows applies
\* no kernel, and clear() changes neither the enabled flag nor the parameters of
\* any filter.
C20_ClearEmptiesChainOnly ==
    /\ [](/\ lastCall.op = "clear" => (fc_count = 0 /\ hpc_count = 0)
          /\ (lastCall.op = "process" /\ fc_count = 0) => fc_data = <<>>
          /\ (lastCall.op = "process" /\ hpc_count = 0) => hpc_data = <<>>)
    /\ [][lastCall'.op = "clear" =>
              /\ fc_count' = 0
              /\ hpc_count' = 0
              /\ FilterChain_process(fc_filters', fc_count', enabled') = <<>>
              /\ FilterChainHPC_process(hpc_filters', hpc_count') = <<>>
              /\ enabled' = enabled
              /\ hpc_filters' = hpc_filters]_vars

\* process ran on chains that clear() emptied, with a disabled filter instance
\* and a disabled slot left behind.
C20_Witness ==
    /\ lastCall.op = "process"
    /\ chainClears > 0
    /\ fc_count = 0
    /\ hpc_count = 0
    /\ \E f \in FilterInstances : ~enabled[f]
    /\ \E i \in HPCSlots : hpc_filters[i].name # "nullptr" /\ ~hpc_filters[i].enabled

\* ------------------------------------------------------------ pixel kernels

\* C21: unpacking the packed triple gives channels that differ from the
\* originals by at most 7 (red, blue) and at most 3 (green).
C21_PackUnpackWithinQuantum ==
    px_kernel = "roundtrip" =>
        /\ px_rgb[1] - px_unpacked[1] \in 0 .. 7
        /\ px_rgb[2] - px_unpacked[2] \in 0 .. 3
        /\ px_rgb[3] - px_unpacked[3] \in 0 .. 7

\* A triple whose three channels all lose their low bits was packed and unpacked.
C21_Witness ==
    /\ px_kernel = "roundtrip"
    /\ px_rgb = <<255, 255, 255>>
    /\ px_unpacked = <<248, 252, 248>>

\* C22: after the grayscale filter the pixel unpacks to r = g = b.
\* (The statement of the claim; green keeps one bit more than red and blue.)
C22_GrayscaleChannelsEqual ==
    px_kernel = "GrayscaleFilter" =>
        LET c == rgb565_to_rgb888(px_data)
        IN  c[1] = c[2] /\ c[2] = c[3]

\* C26: the lookup-table grayscale and sepia kernels give exactly the pixel the
\* multiply-and-shift kernels give for the same input pixel.
\* (The statement of the claim; the sum of three rounded-down table entries is
\* not the rounded-down sum, and filter_grayscale_hpc reads the tables at the
\* 5- and 6-bit field values.)
C26_LutKernelsMatchMultiply ==
    /\ px_kernel = "filter_grayscale_hpc" => px_data = GrayscaleFilter_process(px_pixel)
    /\ px_kernel = "filter_sepia_hpc" => px_data = SepiaFilter_process(px_pixel)

\* C27: filter_vintage_hpc gives exactly the pixel VintageFilter gives with
\* warmth 30 and fade 20.
\* (The statement of the claim; the two mix with 180/76 and with 179/77.)
C27_VintageKernelsMatch ==
    px_kernel = "filter_vintage_hpc" => px_data = VintageFilter_process(px_pixel, 30, 20)

\* --------------------------------------------------------- vignette kernels

VignetteAtCenter == vg_x = vg_width \div 2 /\ vg_y = vg_height \div 2
VignetteAtCorner == vg_x \in {0, vg_width - 1} /\ vg_y \in {0, vg_height - 1}

\* C23: for every image size and strength the vignette kernels leave the pixel
\* at (width/2, height/2) as it was (factor 256), the factor at a corner is at
\* most the factor at the center, and no pixel is brightened.
\* (The statement of the claim; an image of one pixel makes the kernels divide
\* by zero.)
C23_VignetteCenterUnchanged ==
    /\ vg_pc # "fault"
    /\ vg_pc = "done" =>
          /\ VignetteAtCenter => (vg_factor = 256 /\ vg_data = vg_pixel)
          /\ VignetteAtCorner => vg_factor <= 256
          /\ \A i \in 1 .. 3 :
                rgb565_to_rgb888(vg_data)[i] <= rgb565_to_rgb888(vg_pixel)[i]

\* C24: every vignette kernel keeps its factor above zero, so that a corner
\* pixel that was not black is not black afterwards.
\* (The statement of the claim; only filter_vignette_hpc has a minimum above 0.)
C24_VignetteFactorAboveZero ==
    vg_pc = "done" =>
        /\ vg_factor > 0
        /\ (VignetteAtCorner /\ vg_pixel = 65535) => vg_data # 0

\* ----------------------------------------------------------- buffer accesses

AccessInBounds == (nb_reads \cup nb_writes) \subseteq 0 .. nb_width * nb_height - 1
AccessDegenerate == nb_width = 1 \/ nb_height = 1

\* C28 as stated: on a buffer 1 pixel tall or wide every kernel reads and writes
\* only indices in [0, width * height), and edge, blur and sharpen touch no pixel
\* at all. (EdgeDetectFilter reads the first rows into its line buffers.)
C28_DegenerateBuffersUntouched ==
    (nb_pc = "done" /\ AccessDegenerate) =>
        /\ AccessInBounds
        /\ nb_kernel \in NeighbourhoodKernels => (nb_reads = {} /\ nb_writes = {})

\* C28, amended: on a buffer 1 pixel tall or wide every kernel reads and writes
\* only indices in [0, width * height); edge, blur and sharpen write no pixel,
\* blur and sharpen read none, and edge only reads.
C28_DegenerateBuffersInBounds ==
    (nb_pc = "done" /\ AccessDegenerate) =>
        /\ AccessInBounds
        /\ nb_kernel \in NeighbourhoodKernels => nb_writes = {}
        /\ nb_kernel \in {"BlurFilter", "SharpenFilter"} => nb_reads = {}

C28_Witness ==
    /\ nb_pc = "done"
    /\ nb_kernel = "EdgeDetectFilter"
    /\ nb_width = 1
    /\ nb_height = MaxAccessDim
    /\ nb_reads = 0 .. MaxAccessDim - 1
    /\ nb_writes = {}

\* ---------------------------------------------------------------- saturation

\* C29: in every kernel, for every pixel and every parameter value of the
\* parameter's type, each channel is within [0, 255] where it becomes an 8-bit
\* value: it is the computed value when that lies in [0, 255], 0 when it lies
\* below and 255 when it lies above, and the stored pixel holds its top bits.
C29_ChannelsSaturate ==
    cl_pc = "done" =>
        /\ \A i \in 1 .. 3 :
              /\ cl_wide[i] \in 0 .. 255
              /\ cl_wide[i] = (IF cl_raw[i] < 0 THEN 0
                               ELSE IF cl_raw[i] > 255 THEN 255 ELSE cl_raw[i])
        /\ rgb565_to_rgb888(cl_data) = <<(cl_wide[1] \div 8) * 8, (cl_wide[2] \div 4) * 4,
                                         (cl_wide[3] \div 8) * 8>>

C29_Witness ==
    /\ cl_pc = "done"
    /\ cl_kernel = "CoolFilter"
    /\ cl_raw[1] < 0
    /\ cl_raw[3] > 255
    /\ cl_wide[1] = 0
    /\ cl_wide[3] = 255

\* --------------------------------------------------------- grain generator

\* Bit k of the 32-bit register kept as <<high half, low half>>.
RegisterBit(reg, k) ==
    IF k < 16 THEN (reg[2] \div (2 ^ k)) % 2 ELSE (reg[1] \div (2 ^ (k - 16))) % 2

\* The number whose bit k is b[k], for k below n.
RECURSIVE FromBits(_, _)
FromBits(b, n) == IF n = 0 THEN 0 ELSE b[n - 1] * (2 ^ (n - 1)) + FromBits(b, n - 1)

\* One step of the generator as the claim states it: every bit moves one place
\* down, the new bit 31 is the XOR of the old bits 0, 1, 21 and 31.
RegisterShifted(reg) ==
    LET new(k) == IF k = 31
                  THEN (RegisterBit(reg, 0) + RegisterBit(reg, 1) + RegisterBit(reg, 21)
                           + RegisterBit(reg, 31)) % 2
                  ELSE RegisterBit(reg, k + 1)
    IN  <<FromBits([k \in 0 .. 15 |-> new(k + 16)], 16),
          FromBits([k \in 0 .. 15 |-> new(k)], 16)>>

\* The seed advanced n steps.
RECURSIVE RegisterAfter(_)
RegisterAfter(n) == IF n = 0 THEN LfsrSeed ELSE RegisterShifted(RegisterAfter(n - 1))

\* C30: the grain generator is one 32-bit register, advanced exactly one step
\* per pixel and carried from one call of filter_grain_hpc to the next without
\* being set back to its seed: at any time it holds the seed advanced by as
\* many steps as pixels were filtered since the start, over all calls.
C30_GeneratorCarriedAcrossCalls ==
    /\ gr_lfsr = RegisterAfter(gr_pixels)
    /\ gr_lfsr[1] \in 0 .. 65535
    /\ gr_lfsr[2] \in 0 .. 65535

C30_Witness ==
    /\ gr_calls = 2
    /\ gr_pc = "loop"
    /\ gr_i = 1
    /\ gr_pixels = MaxGrainPixels + 1
    /\ gr_lfsr # LfsrSeed

\* ----------------------------------------------------------- edge detection

\* The entries of a line buffer that holds the original row `row`.
OriginalRow(row) == [col \in 1 .. ed_width |-> row * ed_width + col]

\* C31: when EdgeDetectFilter computes row y (1 <= y <= height - 2), its three
\* line buffers hold the luminance of the original rows y - 1, y and y + 1, in
\* the slots (y - 1) % 3, y % 3 and (y + 1) % 3; there are three slots at all
\* times.
C31_LineBuffersHoldOriginalRows ==
    /\ DOMAIN ed_lineBuffer = 0 .. 2
    /\ (ed_pc = "row" /\ ed_y < ed_height - 1) =>
          /\ ed_lineBuffer[(ed_y - 1) % 3] = OriginalRow(ed_y - 1)
          /\ ed_lineBuffer[ed_y % 3] = OriginalRow(ed_y)
          /\ ed_lineBuffer[(ed_y + 1) % 3] = OriginalRow(ed_y + 1)

C31_Witness ==
    /\ ed_pc = "row"
    /\ ed_y = 2
    /\ ed_y < ed_height - 1
    /\ ed_width = 3
    /\ ed_data[ed_width + 2] = -1
    /\ ed_lineBuffer[1] = OriginalRow(1)
    /\ ed_lineBuffer[0] = OriginalRow(3)

\* ------------------------------------------------------ unavailable pipeline

\* The control positions inside pipeline_process_frame().
FramePositions ==
    {"frame_entry", "frame_window", "frame_getbuf", "line_begin", "line_downscale",
     "line_transmit", "line_polling", "frame_count", "frame_return"}

\* C32: inside pipeline_process_frame(), while the pipeline is not initialized
\* or the frame is null, no step issues a display transaction or changes a
\* counter; and the pipeline becomes available only in a pipeline_init() that
\* returns true.
C32_UnavailablePipelineDoesNothing ==
    [][/\ (pc \in FramePositions /\ (~g_pipelineInitialized \/ ~frameArg)) =>
             /\ callWindowTx' = callWindowTx
             /\ callScanTx' = callScanTx
             /\ lastTx' = lastTx
             /\ g_framesProcessed' = g_framesProcessed
             /\ g_dmaCompletions' = g_dmaCompletions
       /\ (~g_pipelineInitialized /\ g_pipelineInitialized') =>
             /\ op = "pipeline_init"
             /\ initResult']_vars

\* C32 witness: pipeline_process_frame() returns from a call with a frame on a
\* pipeline whose pipeline_init() failed, after no transaction and no count.
C32_Witness ==
    /\ pc = "frame_return"
    /\ op = "pipeline_process_frame"
    /\ ~g_pipelineInitialized
    /\ frameArg
    /\ initFailedAt # "none"
    /\ callWindowTx = 0
    /\ callScanTx = 0
    /\ g_framesProcessed = entryFrames

\* ----------------------------------------------------------------- statistics

\* C33: between calls on an initialized pipeline, pipeline_get_stats() reports
\* DISPLAY_HEIGHT completed transfers for every frame processed since the
\* pipeline_init() that succeeded.
C33_StatsCountTransfersPerFrame ==
    (pc = "idle" /\ g_pipelineInitialized) =>
        pipeline_get_stats[2] = pipeline_get_stats[1] * DISPLAY_HEIGHT

\* ---------------------------------------------------------- source sampling

\* C34: for every source size and every scanline y and column x of the
\* display, the source coordinates lie inside the frame:
\* 0 <= src_y < src_height and 0 <= src_x < src_width.
C34_SourceCoordinatesInFrame ==
    (sm_pc \in {"downscale", "line", "done"}) =>
        /\ 0 <= sm_src_y
        /\ sm_src_y < sm_height
        /\ \A col \in DOMAIN sm_src_x : 0 <= sm_src_x[col] /\ sm_src_x[col] < sm_width

\* C34 witness: the last scanline of a 1-pixel-wide, 129-line frame has been
\* sampled, all 160 columns of it, from the source line 127.
C34_Witness ==
    /\ sm_pc = "line"
    /\ sm_y = DISPLAY_HEIGHT
    /\ sm_width = 1
    /\ sm_height = 129
    /\ sm_src_y = 127
    /\ DOMAIN sm_src_x = 0 .. DISPLAY_WIDTH - 1
    /\ sm_src_x[DISPLAY_WIDTH - 1] = 0

\* ------------------------------------------------------- vignette divisions

\* C35: for every width and height of at least 1, the 1 x 1 image included, no
\* vignette kernel executes its division with a divisor maxDistSq of zero.
\* (The statement of the claim; for a 1 x 1 image cx = cy = 0 and the divisor
\* cx * cx + cy * cy is 0.)
C35_VignetteDivisorNonZero ==
    [][~(/\ vg_pc = "call"
         /\ vg_pc' # "call"
         /\ VignetteMaxDistSq(vg_width, vg_height) = 0)]_vars

\* ------------------------------------------------------------ filter chains

\* The enabled state of slot i as each chain's process() sees it.
FcSlotEnabled(i) == fc_filters[i] # NullFilter /\ enabled[fc_filters[i]]
HpcSlotEnabled(i) == hpc_filters[i].enabled

\* C36: after the same calls of addFilter, toggle, setEnabled and clear,
\* FilterChain and FilterChainHPC have the same slots in use and agree on the
\* enabled state of every one of them; a filter added after a clear is enabled
\* in both.
\* (The statement of the claim; FilterChain keeps the flag in the filter
\* instance, where it outlives clear() and is shared by every slot that holds
\* the instance, FilterChainHPC::addFilter sets the flag of the new slot.)
C36_ChainsAgreeOnEnabled ==
    /\ FcUsed = HpcUsed
    /\ \A i \in FcUsed : FcSlotEnabled(i) = HpcSlotEnabled(i)
    /\ (lastCall.op = "addFilter" /\ lastCall.fc = TRUE /\ chainClears > 0) =>
          /\ FcSlotEnabled(fc_count - 1)
          /\ HpcSlotEnabled(hpc_count - 1)

\* ------------------------------------------------- display transfer driver

\* C37: no call of send_display_dma_async or wait_display_dma_complete rewrites
\* the shared descriptor g_spiTransaction while a transfer queued with it is in
\* flight.
\* (The statement of the claim; send_display_dma_async rewrites the descriptor
\* without waiting for the transfer queued before.)
C37_DescriptorStableInFlight ==
    [][TransferInFlight => g_spiTransaction' = g_spiTransaction]_vars

\* ------------------------------------------------------------ camera driver

\* The sensor buffers the driver holds: given and not returned.
DriverHolds == {b \in SensorBuffers : cd_gets[b] > cd_returns[b]}

\* C38: whatever the sequence of captureFrame and releaseFrame, the driver holds
\* at most one sensor buffer (and that one is _currentFrame), no buffer is
\* returned more often than it was given, and releaseFrame with no frame held
\* changes nothing.
C38_DriverHoldsOneFrame ==
    /\ [](/\ Cardinality(DriverHolds) <= 1
          /\ DriverHolds \subseteq {cd_currentFrame}
          /\ \A b \in SensorBuffers : cd_returns[b] <= cd_gets[b])
    /\ [][(cd_lastCall' = "releaseFrame" /\ cd_calls' # cd_calls
           /\ cd_currentFrame = 0) =>
              UNCHANGED <<cd_currentFrame, cd_frame, cd_gets, cd_returns>>]_vars

\* C38 witness: releaseFrame was called twice in a row after two captures that
\* gave the same sensor buffer; it was returned as often as it was given.
C38_Witness ==
    /\ cd_lastCall = "releaseFrame"
    /\ cd_pc = "idle"
    /\ cd_calls = 4
    /\ cd_currentFrame = 0
    /\ cd_gets[1] = 2
    /\ cd_returns[1] = 2
    /\ cd_gets[2] = 0

\* ----------------------------------------------------- main loop, watchdog

\* C39: while the program keeps stepping (every loop function returns within
\* MaxStepSec), the watchdog is fed before WATCHDOG_TIMEOUT_SEC seconds have
\* passed since the last feed, so it never resets the device.
\* (The statement of the claim; the loop over a running mode in
\* handleMenuInput() does not feed the watchdog.)
C39_WatchdogFedInTime ==
    /\ wd_sinceFeed < WATCHDOG_TIMEOUT_SEC
    /\ wd_pc # "reset"

\* --------------------------------------------------------- grain generator

\* C40: the grain generator never holds zero: from the seed 0xDEADBEEF, and
\* from any other non-zero register, every step of the shift register gives a
\* non-zero register.
C40_GeneratorNeverZero ==
    /\ [](gr_lfsr # <<0, 0>>)
    /\ [][gr_lfsr # <<0, 0>> => gr_lfsr' # <<0, 0>>]_vars

\* C40 witness: the register 0x00000001, whose only set bit is shifted out,
\* has stepped to 0x80000000 and then to 0xC0000000.
C40_Witness ==
    /\ gr_pixels = 2
    /\ gr_lfsr = <<49152, 0>>

====
